---- MODULE Spec2Model ----
(***************************************************************************)
(* Model of the Evpn control-plane client: the native-messaging codec      *)
(* (src/evpn/core/native_messaging.py) and the protocol session            *)
(* (src/evpn/core/base_api.py, class BaseApi).                             *)
(*                                                                         *)
(* Text is a sequence of one-character strings, bytes are integers 0..255. *)
(* A JSON value is a tagged record [t, v]; a JSON object keeps its members *)
(* as a sequence of <<key, value>> pairs in insertion order, as a Python   *)
(* dict does.  Python None and JSON null are the same value, JNull.        *)
(***************************************************************************)
EXTENDS Integers, Sequences, FiniteSets, TLC

\* ------------------------------------------------------------------------
\* Bounds of the model
\* ------------------------------------------------------------------------
\* number of name parts a method name is assembled from (build specification)
MaxParts == 3
\* number of members of a JSON object fed to the codec (codec specification)
MaxMembers == 2
\* number of frames the daemon writes to its output
MaxEmit == 3
\* number of requests a session sends
MaxCalls == 2
\* number of times close() is called on a session
MaxCloses == 2
\* the largest number of locations the daemon reports
MaxLocations == 2

\* ------------------------------------------------------------------------
\* JSON values
\* ------------------------------------------------------------------------
JNull == [t |-> "null", v |-> 0]
JBool(b) == [t |-> "bool", v |-> b]
JInt(n) == [t |-> "int", v |-> n]
JStr(s) == [t |-> "str", v |-> s]
JList(items) == [t |-> "list", v |-> items]
JObj(pairs) == [t |-> "obj", v |-> pairs]

\* the keys of a dict, as a set
Keys(d) == {d.v[i][1] : i \in 1..Len(d.v)}

\* key in dict
HasKey(d, k) == \E i \in 1..Len(d.v) : d.v[i][1] = k

\* dict.get(key, default)
GetOr(d, k, default) ==
    IF HasKey(d, k)
    THEN d.v[CHOOSE i \in 1..Len(d.v) : d.v[i][1] = k][2]
    ELSE default

\* dict.get(key): None when the key is absent
Get(d, k) == GetOr(d, k, JNull)

\* d[key] = value: an existing key keeps its position, a new one goes last
SetItem(d, k, val) ==
    IF HasKey(d, k)
    THEN JObj([i \in 1..Len(d.v) |-> IF d.v[i][1] = k THEN <<k, val>> ELSE d.v[i]])
    ELSE JObj(Append(d.v, <<k, val>>))

\* Python truth value of a JSON value (bool(x), `not x`, `x or y`)
Truthy(x) ==
    CASE x.t = "null" -> FALSE
      [] x.t = "bool" -> x.v
      [] x.t = "int"  -> x.v # 0
      [] OTHER        -> Len(x.v) > 0

\* Python == on JSON values: dicts compare as mappings (member order is
\* irrelevant), lists element by element, True == 1 and False == 0
RECURSIVE PyEq(_, _)
PyEq(a, b) ==
    CASE a.t = "obj" /\ b.t = "obj" ->
            /\ Keys(a) = Keys(b)
            /\ \A k \in Keys(a) : PyEq(Get(a, k), Get(b, k))
      [] a.t = "list" /\ b.t = "list" ->
            /\ Len(a.v) = Len(b.v)
            /\ \A i \in 1..Len(a.v) : PyEq(a.v[i], b.v[i])
      [] a.t \in {"int", "bool"} /\ b.t \in {"int", "bool"} ->
            LET num(x) == IF x.t = "int" THEN x.v ELSE IF x.v THEN 1 ELSE 0
            IN  num(a) = num(b)
      [] OTHER -> a.t = b.t /\ a.v = b.v

\* ------------------------------------------------------------------------
\* Characters and bytes
\* ------------------------------------------------------------------------
Digits == <<"0", "1", "2", "3", "4", "5", "6", "7", "8", "9">>
HexDigits == Digits \o <<"a", "b", "c", "d", "e", "f">>
Lower == <<"a", "b", "c", "d", "e", "f", "g", "h", "i", "j", "k", "l", "m",
           "n", "o", "p", "q", "r", "s", "t", "u", "v", "w", "x", "y", "z">>
Upper == <<"A", "B", "C", "D", "E", "F", "G", "H", "I", "J", "K", "L", "M",
           "N", "O", "P", "Q", "R", "S", "T", "U", "V", "W", "X", "Y", "Z">>

IndexOf(seq, c) == CHOOSE i \in 1..Len(seq) : seq[i] = c
Range(seq) == {seq[i] : i \in 1..Len(seq)}

\* the one character outside ASCII that the model's strings use (U+00E9)
EAcute == "U+00E9"

\* the code point of a character of the model's alphabet
CodePointOf(c) ==
    CASE c \in Range(Digits) -> 47 + IndexOf(Digits, c)
      [] c \in Range(Upper)  -> 64 + IndexOf(Upper, c)
      [] c \in Range(Lower)  -> 96 + IndexOf(Lower, c)
      [] c = " "  -> 32
      [] c = "\"" -> 34
      [] c = ","  -> 44
      [] c = "-"  -> 45
      [] c = "."  -> 46
      [] c = ":"  -> 58
      [] c = "["  -> 91
      [] c = "\\" -> 92
      [] c = "]"  -> 93
      [] c = "_"  -> 95
      [] c = "{"  -> 123
      [] c = "}"  -> 125
      [] c = EAcute -> 233

Alphabet ==
    Range(Digits) \cup Range(Upper) \cup Range(Lower) \cup
    {" ", "\"", ",", "-", ".", ":", "[", "\\", "]", "_", "{", "}", EAcute}

OrdTable == [c \in Alphabet |-> CodePointOf(c)]
CodePoints == {OrdTable[c] : c \in Alphabet}
ChrTable == [n \in CodePoints |-> CHOOSE c \in Alphabet : OrdTable[c] = n]

\* ord() and chr() on the model's alphabet
Ord(c) == OrdTable[c]
Chr(n) == ChrTable[n]

\* the concatenation of the sequences seqs[lo], ..., seqs[hi]
RECURSIVE FlattenRange(_, _, _)
FlattenRange(seqs, lo, hi) ==
    IF lo > hi THEN <<>>
    ELSE IF lo = hi THEN seqs[lo]
    ELSE LET mid == (lo + hi) \div 2
         IN  FlattenRange(seqs, lo, mid) \o FlattenRange(seqs, mid + 1, hi)

Flatten(seqs) == FlattenRange(seqs, 1, Len(seqs))

\* str.encode("utf-8") of one character
Utf8EncodeChar(c) ==
    LET cp == Ord(c)
    IN  IF cp < 128 THEN <<cp>> ELSE <<192 + (cp \div 64), 128 + (cp % 64)>>

\* str.encode("utf-8")
Utf8Encode(text) == Flatten([i \in 1..Len(text) |-> Utf8EncodeChar(text[i])])

IsCont(b) == b >= 128 /\ b <= 191
IsLead2(b) == b >= 194 /\ b <= 223

\* bytes.decode("utf-8"): [ok, text]; ok is FALSE for UnicodeDecodeError.
\* One-byte and two-byte sequences are decoded; every other byte is invalid
\* where it stands (the streams of the model carry no longer sequences).
Utf8Decode(bytes) ==
    LET n == Len(bytes)
        cp2(i) == (bytes[i] - 192) * 64 + (bytes[i + 1] - 128)
        valid == \A i \in 1..n :
                    CASE bytes[i] < 128   -> bytes[i] \in CodePoints
                      [] IsLead2(bytes[i]) -> /\ i + 1 <= n
                                              /\ IsCont(bytes[i + 1])
                                              /\ cp2(i) \in CodePoints
                      [] IsCont(bytes[i])  -> i > 1 /\ IsLead2(bytes[i - 1])
                      [] OTHER -> FALSE
        IsStart(i) == ~IsCont(bytes[i])
        starts == SelectSeq([i \in 1..n |-> i], IsStart)
    IN  IF valid
        THEN [ok |-> TRUE,
              text |-> [k \in 1..Len(starts) |->
                          IF bytes[starts[k]] < 128 THEN Chr(bytes[starts[k]])
                          ELSE Chr(cp2(starts[k]))]]
        ELSE [ok |-> FALSE, text |-> <<>>]

\* ------------------------------------------------------------------------
\* json.dumps (default options: ensure_ascii, separators ", " and ": ")
\* ------------------------------------------------------------------------
RECURSIVE NatStr(_)
NatStr(n) ==
    IF n < 10 THEN <<Digits[n + 1]>>
    ELSE NatStr(n \div 10) \o <<Digits[(n % 10) + 1]>>

IntStr(n) == IF n < 0 THEN <<"-">> \o NatStr(0 - n) ELSE NatStr(n)

Hex4(n) == << HexDigits[((n \div 4096) % 16) + 1], HexDigits[((n \div 256) % 16) + 1],
              HexDigits[((n \div 16) % 16) + 1],   HexDigits[(n % 16) + 1] >>

\* a json.dumps that escapes nothing
EscapeChar_Verbatim(c) == <<c>>

\* the escape of one character inside a JSON string
EscapeChar(c) ==
    CASE c = "\"" -> <<"\\", "\"">>
      [] c = "\\" -> <<"\\", "\\">>
      [] Ord(c) >= 128 -> <<"\\", "u">> \o Hex4(Ord(c))
      [] OTHER -> <<c>>

EscapeStr(text) == Flatten([i \in 1..Len(text) |-> EscapeChar(text[i])])

QuoteStr(text) == <<"\"">> \o EscapeStr(text) \o <<"\"">>

RECURSIVE json_dumps(_)
json_dumps(x) ==
    LET Sep(i) == IF i > 1 THEN <<",", " ">> ELSE <<>>
        Items(items) ==
            Flatten([i \in 1..Len(items) |-> Sep(i) \o json_dumps(items[i])])
        Members(pairs) ==
            Flatten([i \in 1..Len(pairs) |->
                Sep(i) \o QuoteStr(pairs[i][1]) \o <<":", " ">> \o json_dumps(pairs[i][2])])
    IN  CASE x.t = "null" -> <<"n", "u", "l", "l">>
          [] x.t = "bool" -> IF x.v THEN <<"t", "r", "u", "e">>
                                     ELSE <<"f", "a", "l", "s", "e">>
          [] x.t = "int"  -> IntStr(x.v)
          [] x.t = "str"  -> QuoteStr(x.v)
          [] x.t = "list" -> <<"[">> \o Items(x.v) \o <<"]">>
          [] x.t = "obj"  -> <<"{">> \o Members(x.v) \o <<"}">>

\* ------------------------------------------------------------------------
\* json.loads
\* ------------------------------------------------------------------------
\* the character at position i, "" past the end of the text
At(text, i) == IF i >= 1 /\ i <= Len(text) THEN text[i] ELSE ""

ParseFail == [ok |-> FALSE, val |-> JNull, pos |-> 0]
Parsed(val, pos) == [ok |-> TRUE, val |-> val, pos |-> pos]

\* the first position at or after i that holds no white space
RECURSIVE SkipWs(_, _)
SkipWs(text, i) == IF At(text, i) = " " THEN SkipWs(text, i + 1) ELSE i

IsDigit(c) == c \in Range(Digits)
IsHex(c) == c \in Range(HexDigits) \cup {"A", "B", "C", "D", "E", "F"}
HexVal(c) == IF c \in Range(HexDigits) THEN IndexOf(HexDigits, c) - 1
             ELSE IndexOf(Upper, c) + 9

\* the number of backslashes that stand directly before position p, counted
\* no further back than position i
BackslashesBefore(text, i, p) ==
    LET stops == {q \in (i - 1)..(p - 1) : q = i - 1 \/ text[q] # "\\"}
        last == CHOOSE q \in stops : \A r \in stops : r <= q
    IN  p - 1 - last

\* the characters of a string literal whose opening quote precedes position i;
\* pos is the position after the closing quote.  A character is escaped when
\* an odd number of backslashes precedes it; the literal ends at the first
\* quote that is not escaped; \" \\ and \uXXXX are the escapes of the model.
ScanString(text, i) ==
    LET Escaped(p) == /\ p > i
                      /\ text[p - 1] = "\\"
                      /\ BackslashesBefore(text, i, p) % 2 = 1
        closers == {j \in i..Len(text) : text[j] = "\"" /\ ~Escaped(j)}
    IN  IF closers = {} THEN ParseFail
        ELSE LET close == CHOOSE j \in closers : \A k \in closers : j <= k
                 InHex(p) == \E k \in 1..4 :
                                p - k >= i /\ text[p - k] = "u" /\ Escaped(p - k)
                 IsToken(p) == ~Escaped(p) /\ ~InHex(p)
                 tokens == SelectSeq([k \in 1..(close - i) |-> i + k - 1], IsToken)
                 HexAt(p) == HexVal(text[p + 2]) * 4096 + HexVal(text[p + 3]) * 256
                             + HexVal(text[p + 4]) * 16 + HexVal(text[p + 5])
                 TokenOk(p) ==
                    \/ text[p] # "\\"
                    \/ text[p + 1] \in {"\"", "\\"}
                    \/ /\ text[p + 1] = "u"
                       /\ p + 5 < close
                       /\ \A k \in 2..5 : IsHex(text[p + k])
                       /\ HexAt(p) \in CodePoints
                 TokenChar(p) ==
                    CASE text[p] # "\\" -> text[p]
                      [] text[p + 1] = "u" -> Chr(HexAt(p))
                      [] OTHER -> text[p + 1]
             IN  IF \A k \in 1..Len(tokens) : TokenOk(tokens[k])
                 THEN Parsed([k \in 1..Len(tokens) |-> TokenChar(tokens[k])], close + 1)
                 ELSE ParseFail

\* the digits starting at position i, as a number; pos is the position after
RECURSIVE ScanDigits(_, _, _)
ScanDigits(text, i, acc) ==
    IF IsDigit(At(text, i))
    THEN ScanDigits(text, i + 1, acc * 10 + (IndexOf(Digits, text[i]) - 1))
    ELSE Parsed(acc, i)

\* an integer literal: -?(0|[1-9][0-9]*)
ScanInt(text, i) ==
    LET neg == At(text, i) = "-"
        j == IF neg THEN i + 1 ELSE i
        mag == CASE At(text, j) = "0" -> Parsed(0, j + 1)
                 [] IsDigit(At(text, j)) -> ScanDigits(text, j, 0)
                 [] OTHER -> ParseFail
    IN  IF mag.ok THEN Parsed(JInt(IF neg THEN 0 - mag.val ELSE mag.val), mag.pos)
        ELSE ParseFail

Matches(text, i, word) ==
    \A k \in 1..Len(word) : At(text, i + k - 1) = word[k]

RECURSIVE ParseValue(_, _)
RECURSIVE ParseMembers(_, _, _), MemberAfterKey(_, _, _), MemberAfterValue(_, _, _, _)
RECURSIVE MembersAfter(_, _, _)
RECURSIVE ParseItems(_, _, _), ItemAfterValue(_, _, _), ItemsAfter(_, _, _)

\* a string value, from the scan r of its literal
StringValue(r) == IF r.ok THEN Parsed(JStr(r.val), r.pos) ELSE ParseFail

\* the JSON value that starts at position i
ParseValue(text, i) ==
    LET c == At(text, i)
    IN  CASE c = "\"" -> StringValue(ScanString(text, i + 1))
          [] c = "{" ->
                IF At(text, SkipWs(text, i + 1)) = "}"
                THEN Parsed(JObj(<<>>), SkipWs(text, i + 1) + 1)
                ELSE ParseMembers(text, SkipWs(text, i + 1), JObj(<<>>))
          [] c = "[" ->
                IF At(text, SkipWs(text, i + 1)) = "]"
                THEN Parsed(JList(<<>>), SkipWs(text, i + 1) + 1)
                ELSE ParseItems(text, SkipWs(text, i + 1), <<>>)
          [] c = "n" /\ Matches(text, i, <<"n", "u", "l", "l">>) -> Parsed(JNull, i + 4)
          [] c = "t" /\ Matches(text, i, <<"t", "r", "u", "e">>) -> Parsed(JBool(TRUE), i + 4)
          [] c = "f" /\ Matches(text, i, <<"f", "a", "l", "s", "e">>) -> Parsed(JBool(FALSE), i + 5)
          [] c = "-" \/ IsDigit(c) -> ScanInt(text, i)
          [] OTHER -> ParseFail

\* the members of an object from position i (a key is expected there) up to
\* the closing brace; a repeated key keeps its first place and its last value
ParseMembers(text, i, acc) ==
    IF At(text, i) # "\"" THEN ParseFail
    ELSE MemberAfterKey(text, acc, ScanString(text, i + 1))

\* ... after the scan k of the key: a colon, then the value
MemberAfterKey(text, acc, k) ==
    IF ~k.ok THEN ParseFail
    ELSE IF At(text, SkipWs(text, k.pos)) # ":" THEN ParseFail
    ELSE MemberAfterValue(text, acc, k.val,
                          ParseValue(text, SkipWs(text, SkipWs(text, k.pos) + 1)))

\* ... after the parse val of the value: the member is set
MemberAfterValue(text, acc, key, val) ==
    IF ~val.ok THEN ParseFail
    ELSE MembersAfter(text, SetItem(acc, key, val.val), SkipWs(text, val.pos))

\* ... at position next: the closing brace, or a comma and more members
MembersAfter(text, obj, next) ==
    CASE At(text, next) = "}" -> Parsed(obj, next + 1)
      [] At(text, next) = "," -> ParseMembers(text, SkipWs(text, next + 1), obj)
      [] OTHER -> ParseFail

\* the items of an array from position i up to the closing bracket
ParseItems(text, i, acc) == ItemAfterValue(text, acc, ParseValue(text, i))

\* ... after the parse val of an item: the item is appended
ItemAfterValue(text, acc, val) ==
    IF ~val.ok THEN ParseFail
    ELSE ItemsAfter(text, Append(acc, val.val), SkipWs(text, val.pos))

\* ... at position next: the closing bracket, or a comma and more items
ItemsAfter(text, items, next) ==
    CASE At(text, next) = "]" -> Parsed(JList(items), next + 1)
      [] At(text, next) = "," -> ParseItems(text, SkipWs(text, next + 1), items)
      [] OTHER -> ParseFail

\* the value parsed is the whole text
WholeText(text, r) ==
    IF r.ok /\ SkipWs(text, r.pos) = Len(text) + 1
    THEN [ok |-> TRUE, val |-> r.val]
    ELSE [ok |-> FALSE, val |-> JNull]

\* json.loads(text): [ok, val]; ok is FALSE for JSONDecodeError (no value, or
\* data after the value)
json_loads(text) == WholeText(text, ParseValue(text, SkipWs(text, 1)))

\* ------------------------------------------------------------------------
\* struct.pack("@I", n) / struct.unpack("@I", b): 4 bytes, native byte order
\* ------------------------------------------------------------------------
ByteOrders == {"little", "big"}

Reverse(seq) == [i \in 1..Len(seq) |-> seq[Len(seq) + 1 - i]]

\* a pack in network byte order ("!I") whatever the host
struct_pack_Network(order, n) ==
    << (n \div 16777216) % 256, (n \div 65536) % 256, (n \div 256) % 256, n % 256 >>

struct_pack(order, n) ==
    LET le == << n % 256, (n \div 256) % 256, (n \div 65536) % 256, (n \div 16777216) % 256 >>
    IN  IF order = "little" THEN le ELSE Reverse(le)

struct_unpack(order, raw) ==
    LET le == IF order = "little" THEN raw ELSE Reverse(raw)
    IN  le[1] + le[2] * 256 + le[3] * 65536 + le[4] * 16777216

\* ------------------------------------------------------------------------
\* Vocabulary: key names and texts of the source, payloads of the daemon
\* ------------------------------------------------------------------------
K_method == <<"m", "e", "t", "h", "o", "d">>
K_params == <<"p", "a", "r", "a", "m", "s">>
K_jsonrpc == <<"j", "s", "o", "n", "r", "p", "c">>
K_id == <<"i", "d">>

K_connected == <<"c", "o", "n", "n", "e", "c", "t", "e", "d">>
K_browser_helper_protocol ==
    <<"b", "r", "o", "w", "s", "e", "r", "_", "h", "e", "l", "p", "e", "r", "_", "p", "r", "o", "t", "o", "c", "o", "l">>
K_type == <<"t", "y", "p", "e">>
K_name == <<"n", "a", "m", "e">>
K_error == <<"e", "r", "r", "o", "r">>
K_info == <<"i", "n", "f", "o">>
K_change_connected_location ==
    <<"c", "h", "a", "n", "g", "e", "_", "c", "o", "n", "n", "e", "c", "t", "e", "d", "_",
      "l", "o", "c", "a", "t", "i", "o", "n">>

T_method == <<"m", "e", "t", "h", "o", "d">>
T_result == <<"r", "e", "s", "u", "l", "t">>
T_XVPN == <<"X", "V", "P", "N", ".">>
T_2_0 == <<"2", ".", "0">>
T_ErrorFromDaemon ==
    <<"E", "r", "r", "o", "r", " ", "f", "r", "o", "m", " ", "d", "a", "e", "m", "o", "n", ":", " ">>

T_ev == <<"e", "v">>
T_push == <<"p", "u", "s", "h">>
T_r == <<"r">>
T_bad == <<"b", "a", "d">>

JsonOutput(val) == [json |-> TRUE, val |-> val, payload |-> Utf8Encode(json_dumps(val))]
RawOutput(bytes) == [json |-> FALSE, val |-> JNull, payload |-> bytes]

\* the payloads the daemon of the model can write
DaemonOutputs == <<
    \* {"connected": true, "browser_helper_protocol": 2}
    JsonOutput(JObj(<< <<K_connected, JBool(TRUE)>>, <<K_browser_helper_protocol, JInt(2)>> >>)),
    \* {"connected": true}
    JsonOutput(JObj(<< <<K_connected, JBool(TRUE)>> >>)),
    \* {"name": "ev", "type": "push", "browser_helper_protocol": 2}
    JsonOutput(JObj(<< <<K_name, JStr(T_ev)>>, <<K_type, JStr(T_push)>>,
                       <<K_browser_helper_protocol, JInt(2)>> >>)),
    \* {"name": "", "type": "push"}
    JsonOutput(JObj(<< <<K_name, JStr(<<>>)>>, <<K_type, JStr(T_push)>> >>)),
    \* {"type": "result", "name": "r"}
    JsonOutput(JObj(<< <<K_type, JStr(T_result)>>, <<K_name, JStr(T_r)>> >>)),
    \* {"type": "method", "name": "r", "error": "bad"}
    JsonOutput(JObj(<< <<K_type, JStr(T_method)>>, <<K_name, JStr(T_r)>>,
                       <<K_error, JStr(T_bad)>> >>)),
    \* {"error": null}
    JsonOutput(JObj(<< <<K_error, JNull>> >>)),
    \* {   (not JSON)
    RawOutput(<<123>>),
    \* the byte 0xFF (not UTF-8)
    RawOutput(<<255>>),
    \* {"info": {"connected": true}}
    JsonOutput(JObj(<< <<K_info, JObj(<< <<K_connected, JBool(TRUE)>> >>)>> >>)),
    \* {"info": {"connected": false}}
    JsonOutput(JObj(<< <<K_info, JObj(<< <<K_connected, JBool(FALSE)>> >>)>> >>)),
    \* {"info": null}
    JsonOutput(JObj(<< <<K_info, JNull>> >>)) >>

\* the outputs of the handshake and of a plain call; the status reports
\* that answer GetStatus follow them
ProtocolOutputs == 1..9

\* ------------------------------------------------------------------------
\* NativeMessaging (src/evpn/core/native_messaging.py)
\* ------------------------------------------------------------------------
\* get_message, line 28: the outcome of json.loads
LoadedMessage(message) ==
    IF ~message.ok
    THEN [ok |-> FALSE, error |-> "JSONDecodeError", val |-> JNull]
    ELSE [ok |-> TRUE, error |-> "", val |-> message.val]

\* get_message, lines 27-28: the outcome of decode("utf-8"), then json.loads
DecodedText(text) ==
    IF ~text.ok
    THEN [ok |-> FALSE, error |-> "UnicodeDecodeError", val |-> JNull]
    ELSE LoadedMessage(json_loads(text.text))

\* get_message, lines 27-28: fd.read(n).decode("utf-8"), then json.loads
DecodePayloadDirect(bytes) == DecodedText(Utf8Decode(bytes))

\* the same, with the payloads of the daemon decoded once and looked up after
PayloadMemo ==
    [bytes \in {DaemonOutputs[i].payload : i \in 1..Len(DaemonOutputs)} |->
        DecodePayloadDirect(bytes)]

\* memo[key] when the table has the key, the value computed otherwise
LookupOr(memo, key, computed) == IF key \in DOMAIN memo THEN memo[key] ELSE computed

DecodePayload(bytes) == LookupOr(PayloadMemo, bytes, DecodePayloadDirect(bytes))

\* a delivery that hands an empty object to the caller when decoding failed
Delivered_Swallowing(message, rest) ==
    IF ~message.ok
    THEN [kind |-> "message", message |-> JObj(<<>>), rest |-> rest]
    ELSE [kind |-> "message", message |-> message.val, rest |-> rest]

\* get_message, line 28: what the caller gets, message being the decoded
\* payload and rest the bytes left in the stream
Delivered(message, rest) ==
    IF ~message.ok
    THEN [kind |-> "error", error |-> message.error, rest |-> rest]
    ELSE [kind |-> "message", message |-> message.val, rest |-> rest]

\* the number of payload bytes fd.read(message_length) returns
Available(data, message_length) ==
    IF Len(data) - 4 < message_length THEN Len(data) - 4 ELSE message_length

\* a get_message that reads all there is in the stream and takes its first
\* frame from it
get_message_Draining(order, data, eof) ==
    IF Len(data) < 4
    THEN CASE ~eof -> [kind |-> "blocked", rest |-> data]
           [] Len(data) = 0 -> [kind |-> "exit", rest |-> data]
           [] OTHER -> [kind |-> "error", error |-> "struct.error", rest |-> <<>>]
    ELSE LET avail == Available(data, struct_unpack(order, SubSeq(data, 1, 4)))
         IN  IF avail < struct_unpack(order, SubSeq(data, 1, 4)) /\ ~eof
             THEN [kind |-> "blocked", rest |-> data]
             ELSE Delivered(DecodePayload(SubSeq(data, 5, 4 + avail)), <<>>)

\* NativeMessaging.get_message(fd) on a stream that holds the bytes `data`;
\* eof: the writer has closed it.  A read of n bytes blocks until n bytes or the
\* end of the stream.  kind is "blocked" (the read waits), "exit"
\* (sys.exit(0)), "error" (an exception) or "message".
get_message(order, data, eof) ==
    IF Len(data) < 4
    THEN CASE ~eof -> [kind |-> "blocked", rest |-> data]
           [] Len(data) = 0 -> [kind |-> "exit", rest |-> data]
           [] OTHER -> [kind |-> "error", error |-> "struct.error", rest |-> <<>>]
    ELSE LET avail == Available(data, struct_unpack(order, SubSeq(data, 1, 4)))
         IN  IF avail < struct_unpack(order, SubSeq(data, 1, 4)) /\ ~eof
             THEN [kind |-> "blocked", rest |-> data]
             ELSE Delivered(DecodePayload(SubSeq(data, 5, 4 + avail)),
                            SubSeq(data, 5 + avail, Len(data)))

\* an encoder that dumps the message as given under either protocol
encode_message_Verbatim(order, message_content, is_new) ==
    LET encoded_content == Utf8Encode(json_dumps(message_content))
    IN  [length |-> struct_pack(order, Len(encoded_content)), content |-> encoded_content]

\* NativeMessaging.encode_message(message_content, is_new_protocol)
encode_message(order, message_content, is_new) ==
    LET encoded_content ==
            IF is_new
            THEN Utf8Encode(json_dumps(JObj(<<
                    <<K_method, Get(message_content, K_method)>>,
                    <<K_params, GetOr(message_content, K_params, JObj(<<>>))>> >>)))
            ELSE Utf8Encode(json_dumps(message_content))
        encoded_length == struct_pack(order, Len(encoded_content))
    IN  [length |-> encoded_length, content |-> encoded_content]

\* a writer that puts the payload first and the length after it
send_message_ContentFirst(fd, encoded_message) ==
    (fd \o encoded_message.content) \o encoded_message.length

\* NativeMessaging.send_message(fd, encoded_message): the bytes of fd after it
send_message(fd, encoded_message) ==
    (fd \o encoded_message.length) \o encoded_message.content

\* ------------------------------------------------------------------------
\* BaseApi (src/evpn/core/base_api.py): pure parts
\* ------------------------------------------------------------------------
\* str.replace(old, new) from position i on: the occurrences of old are
\* replaced from left to right, each search resuming after the last match
RECURSIVE ReplaceFrom(_, _, _, _)
ReplaceFrom(text, i, old, new) ==
    IF i > Len(text) THEN <<>>
    ELSE IF i + Len(old) - 1 <= Len(text) /\ SubSeq(text, i, i + Len(old) - 1) = old
         THEN new \o ReplaceFrom(text, i + Len(old), old, new)
         ELSE <<text[i]>> \o ReplaceFrom(text, i + 1, old, new)

str_replace(text, old, new) == ReplaceFrom(text, 1, old, new)

\* str(x) of a JSON value, as an f-string formats it: a string stands for
\* itself; inside a list or dict a string is shown by repr(), which for the
\* model's alphabet (no single quote) is the text in single quotes with every
\* backslash doubled
RECURSIVE PyRepr(_)
PyRepr(x) ==
    LET Sep(i) == IF i > 1 THEN <<",", " ">> ELSE <<>>
        Quoted(text) ==
            <<"'">> \o Flatten([i \in 1..Len(text) |->
                         IF text[i] = "\\" THEN <<"\\", "\\">> ELSE <<text[i]>>]) \o <<"'">>
    IN  CASE x.t = "null" -> <<"N", "o", "n", "e">>
          [] x.t = "bool" -> IF x.v THEN <<"T", "r", "u", "e">>
                                     ELSE <<"F", "a", "l", "s", "e">>
          [] x.t = "int"  -> IntStr(x.v)
          [] x.t = "str"  -> Quoted(x.v)
          [] x.t = "list" ->
                <<"[">> \o Flatten([i \in 1..Len(x.v) |-> Sep(i) \o PyRepr(x.v[i])]) \o <<"]">>
          [] x.t = "obj"  ->
                <<"{">> \o Flatten([i \in 1..Len(x.v) |->
                            Sep(i) \o Quoted(x.v[i][1]) \o <<":", " ">> \o PyRepr(x.v[i][2])])
                \o <<"}">>

PyStr(x) == IF x.t = "str" THEN x.v ELSE PyRepr(x)

\* a _build_request that ignores the negotiated protocol
_build_request_AlwaysLegacy(is_new, method, params) ==
    JObj(<< <<K_jsonrpc, JStr(T_2_0)>>,
            <<K_method, JStr(method)>>,
            <<K_params, IF Truthy(params) THEN params ELSE JObj(<<>>)>>,
            <<K_id, JInt(200)>> >>)

\* BaseApi._build_request(method, params): line 185 reads self.is_new_protocol
_build_request(is_new, method, params) ==
    IF is_new
    THEN JObj(<< <<K_method, JStr(str_replace(method, T_XVPN, <<>>))>>,
                 <<K_params, IF Truthy(params) THEN params ELSE JObj(<<>>)>> >>)
    ELSE JObj(<< <<K_jsonrpc, JStr(T_2_0)>>,
                 <<K_method, JStr(method)>>,
                 <<K_params, IF Truthy(params) THEN params ELSE JObj(<<>>)>>,
                 <<K_id, JInt(200)>> >>)

\* the test of line 234 with the `not` of its last operand lost
IsResponse_NamePresent(message) ==
    \/ PyEq(Get(message, K_type), JStr(T_method))
    \/ PyEq(Get(message, K_type), JStr(T_result))
    \/ Truthy(Get(message, K_name))

\* the test of line 234 written as `"name" not in message`
IsResponse_NameAbsent(message) ==
    \/ PyEq(Get(message, K_type), JStr(T_method))
    \/ PyEq(Get(message, K_type), JStr(T_result))
    \/ ~HasKey(message, K_name)

\* BaseApi._get_response, line 234: the message ends the wait for a response
IsResponse(message) ==
    \/ PyEq(Get(message, K_type), JStr(T_method))
    \/ PyEq(Get(message, K_type), JStr(T_result))
    \/ ~Truthy(Get(message, K_name))

\* the test of line 235 written as `message.get("error")`
HasError_Truthy(message) == Truthy(Get(message, K_error))

\* BaseApi._get_response, line 235: "error" in message
HasError(message) == HasKey(message, K_error)

\* line 159 with the default of the new protocol
NegotiatedProtocol_DefaultNew(message) ==
    PyEq(GetOr(message, K_browser_helper_protocol, JInt(2)), JInt(2))

\* BaseApi._wait_for_daemon, line 159: the value given to is_new_protocol
NegotiatedProtocol(message) ==
    PyEq(GetOr(message, K_browser_helper_protocol, JInt(1)), JInt(2))

\* what an operation hands back to its caller: a returned value or a raised
\* exception (kind is its class, text its message)
Outcome(kind, val, text) == [kind |-> kind, val |-> val, text |-> text]
NoOutcome == Outcome("none", JNull, <<>>)
Pending == Outcome("pending", JNull, <<>>)
Returned(val) == Outcome("return", val, <<>>)
Raised(kind) == Outcome(kind, JNull, <<>>)
\* line 236: Exception(f"Error from daemon: {message['error']}")
DaemonException(message) ==
    Outcome("Exception", JNull, T_ErrorFromDaemon \o PyStr(Get(message, K_error)))

\* ------------------------------------------------------------------------
\* BaseApi: the location list
\* ------------------------------------------------------------------------
T_Country == <<"C", "o", "u", "n", "t", "r", "y", " ">>
T_not_found == <<" ", "n", "o", "t", " ", "f", "o", "u", "n", "d", ".", " ">>
T_Did_you_mean == <<"D", "i", "d", " ", "y", "o", "u", " ", "m", "e", "a", "n", " ">>

\* an instance of class Location (lines 10-41): its attributes id and name;
\* the class defines neither __getitem__ nor get
Location(id, name) == [t |-> "Location", v |-> [id |-> id, name |-> name]]

\* str.lower() on the model's alphabet
LowerChar(c) == IF c \in Range(Upper) THEN Lower[IndexOf(Upper, c)] ELSE c
PyLower(text) == [i \in 1..Len(text) |-> LowerChar(text[i])]

\* `sub in text` for two strings
Contains(text, sub) ==
    \E i \in 0..(Len(text) - Len(sub)) : SubSeq(text, i + 1, i + Len(sub)) = sub

\* the result of evaluating an expression: a value, or the exception raised
Value(val) == [kind |-> "value", val |-> val]
Throws(kind) == [kind |-> kind, val |-> JNull]

\* obj[key]: only a dict is subscriptable by a string
Subscript(obj, key) ==
    IF obj.t # "obj" THEN Throws("TypeError")
    ELSE IF ~HasKey(obj, key) THEN Throws("KeyError")
    ELSE Value(Get(obj, key))

\* l["name"].lower() of lines 351 and 354
LoweredNameOf(r) ==
    IF r.kind # "value" THEN r
    ELSE IF r.val.t # "str" THEN Throws("AttributeError")
    ELSE Value(PyLower(r.val.v))
LoweredName(l) == LoweredNameOf(Subscript(l, K_name))

\* the condition of the generator of line 351 (equal) and of line 354
\* (containment), given the lowered name of the location
NameMatches(lowered, name, equal) ==
    IF equal THEN lowered = PyLower(name) ELSE Contains(lowered, PyLower(name))

\* next((l for l in locations if <condition>), None) from position i on:
\* the first location satisfying the condition, None when there is none,
\* or the exception the condition raises
RECURSIVE NextMatch(_, _, _, _)
NextMatchAt(locations, i, name, equal, lowered) ==
    IF lowered.kind # "value" THEN lowered
    ELSE IF NameMatches(lowered.val, name, equal) THEN Value(locations[i])
    ELSE NextMatch(locations, i + 1, name, equal)
NextMatch(locations, i, name, equal) ==
    IF i > Len(locations) THEN Value(JNull)
    ELSE NextMatchAt(locations, i, name, equal, LoweredName(locations[i]))

\* lines 355-357: the message of the ValueError
NotFoundMessage(name, similar) ==
    T_Country \o name \o T_not_found
    \o (IF Truthy(similar) THEN T_Did_you_mean \o PyStr(Get(similar, K_name)) \o <<"?">>
        ELSE <<>>)

\* lines 353-357, given the result of the second generator
NotFound(name, similar) ==
    IF similar.kind # "value" THEN Raised(similar.kind)
    ELSE IF Truthy(similar.val) /\ similar.val.t # "obj" THEN Raised("AttributeError")
    ELSE Outcome("ValueError", JNull, NotFoundMessage(name, similar.val))

\* line 358: return found["id"]
FoundId(id) == IF id.kind # "value" THEN Raised(id.kind) ELSE Returned(id.val)

\* lines 350-358, given the result of the first generator
LookupFrom(locations, name, found) ==
    IF found.kind # "value" THEN Raised(found.kind)
    ELSE IF ~Truthy(found.val) THEN NotFound(name, NextMatch(locations, 1, name, FALSE))
    ELSE FoundId(Subscript(found.val, K_id))

\* get_location_id(name) with self._locations = locations; iterating None
\* raises TypeError
get_location_id(locations, name) ==
    IF locations.t # "list" THEN Raised("TypeError")
    ELSE LookupFrom(locations.v, name, NextMatch(locations.v, 1, name, TRUE))

\* ------------------------------------------------------------------------
\* State
\* ------------------------------------------------------------------------
VARIABLES
    pc,               \* where the client stands in BaseApi's code
    proc,             \* the child process self._proc: "none", "running", "killed", "dead"
    is_new_protocol,  \* self.is_new_protocol
    connected,        \* _wait_for_daemon's local `connected`
    expired,          \* time.time() - start_t has reached the handshake timeout
    stdout,           \* unread bytes of the pipe self._proc.stdout
    stdout_eof,       \* the daemon's end of that pipe is closed
    stdin,            \* bytes written to self._proc.stdin
    outcome,          \* what the last operation handed to its caller
    byteorder,        \* the host's native byte order
    log,              \* history: the outputs the daemon wrote, in order
    consumed,         \* history: how many of them the client has read
    call_start,       \* history: value of consumed when the last request was written
    call_emitted,     \* history: length of log when the last request was written
    prev_kind,        \* history: outcome.kind when the last request was written
    calls,            \* history: number of requests written
    negotiations,     \* history: number of executions of line 159
    closes,           \* history: number of executions of close()
    answered,         \* history: calls ended by a response frame (returned or DaemonError)
    sent,             \* history: the (method, params) of the requests written, in order
    MESSAGE_API,      \* the class attribute BaseApi.MESSAGE_API, one object for all sessions
    peers,            \* pair specification: the fields of two BaseApi objects
    req_in,           \* build specification: the arguments of _build_request
    req_out,          \* build specification: its result
    codec_stage,      \* codec specification: "input", "encoded", "sent", "received"
    codec_in,         \* codec specification: the message given to encode_message
    codec_frame,      \* codec specification: the result of encode_message
    codec_fd,         \* codec specification: the bytes written by send_message
    codec_out,        \* codec specification: the outcome of get_message
    _locations,       \* self._locations
    lookup_name,      \* lookup specification: the argument of get_location_id
    lookup_out,       \* lookup specification: its outcome
    op                \* the public operation the caller is in, and where

vars == << pc, proc, is_new_protocol, connected, expired, stdout, stdout_eof, stdin,
           outcome, byteorder, log, consumed, call_start, call_emitted, prev_kind, calls,
           negotiations, closes, answered, sent, MESSAGE_API, peers,
           req_in, req_out, codec_stage, codec_in, codec_frame, codec_fd, codec_out,
           _locations, lookup_name, lookup_out, op >>

sessionVars == << pc, proc, is_new_protocol, connected, expired, stdout, stdout_eof,
                  stdin, outcome, log, consumed, call_start, call_emitted, prev_kind, calls,
                  negotiations, closes, answered, sent, op >>
buildVars == << req_in, req_out >>
codecVars == << codec_stage, codec_in, codec_frame, codec_fd, codec_out >>
pairVars == << MESSAGE_API, peers >>
lookupVars == << _locations, lookup_name, lookup_out >>
opVars == << op >>

\* the caller is in none of connect, wait_for_connection, wait_for_disconnect
NoOp == [name |-> "none", stage |-> "none", arg |-> JNull, late |-> FALSE, polls |-> 0]

\* ------------------------------------------------------------------------
\* The daemon (environment)
\* ------------------------------------------------------------------------
\* the frame of an output: length prefix, then payload
DaemonFrame(order, out) == struct_pack(order, Len(out.payload)) \o out.payload

\* the daemon writes one frame to its standard output
DaemonEmit(i) ==
    /\ proc = "running" /\ ~stdout_eof
    /\ Len(log) < MaxEmit
    /\ stdout' = stdout \o DaemonFrame(byteorder, DaemonOutputs[i])
    /\ log' = Append(log, i)
    /\ UNCHANGED << pc, proc, is_new_protocol, connected, expired, stdout_eof, stdin,
                    outcome, byteorder, consumed, call_start, call_emitted, prev_kind, calls, negotiations,
                    closes, answered, sent >>
    /\ UNCHANGED << buildVars, codecVars, pairVars, lookupVars, opVars >>

\* the daemon closes its standard output
DaemonClose ==
    /\ proc = "running" /\ ~stdout_eof
    /\ stdout_eof' = TRUE
    /\ UNCHANGED << pc, proc, is_new_protocol, connected, expired, stdout, stdin,
                    outcome, byteorder, log, consumed, call_start, call_emitted, prev_kind, calls, negotiations,
                    closes, answered, sent >>
    /\ UNCHANGED << buildVars, codecVars, pairVars, lookupVars, opVars >>

\* time passes while the client is inside the handshake loop, in a read or
\* in the sleep of line 160: the clock reaches start_t + timeout
Tick ==
    /\ pc \in {"hs_test", "hs_read"}
    /\ ~expired
    /\ expired' = TRUE
    /\ UNCHANGED << pc, proc, is_new_protocol, connected, stdout, stdout_eof, stdin,
                    outcome, byteorder, log, consumed, call_start, call_emitted, prev_kind, calls, negotiations,
                    closes, answered, sent >>
    /\ UNCHANGED << buildVars, codecVars, pairVars, lookupVars, opVars >>

\* ------------------------------------------------------------------------
\* The session (client)
\* ------------------------------------------------------------------------
\* BaseApi.__init__ up to the first test of the handshake loop: the fields are
\* set, _start_service spawns the child, _wait_for_daemon takes start_t
Construct ==
    /\ pc = "unstarted"
    /\ is_new_protocol' = FALSE
    /\ proc' = "running"
    /\ connected' = JBool(FALSE)
    /\ expired' = FALSE
    /\ pc' = "hs_test"
    /\ UNCHANGED << stdout, stdout_eof, stdin, outcome, byteorder, log, consumed,
                    call_start, call_emitted, prev_kind, calls, negotiations,
                    closes, answered, sent >>
    /\ UNCHANGED << buildVars, codecVars, pairVars, lookupVars, opVars >>

\* a handshake that returns when the time is over, connected or not
HsTest_IgnoresTimeout ==
    /\ pc = "hs_test"
    /\ IF ~Truthy(connected) /\ ~expired
       THEN /\ pc' = "hs_read"
            /\ UNCHANGED << connected, expired, outcome >>
       ELSE /\ pc' = "ready" /\ outcome' = Returned(JNull)
            /\ connected' = JBool(FALSE)
            /\ expired' = FALSE
    /\ UNCHANGED << proc, is_new_protocol, stdout, stdout_eof, stdin, byteorder, log,
                    consumed, call_start, call_emitted, prev_kind, calls, negotiations,
                    closes, answered, sent >>
    /\ UNCHANGED << buildVars, codecVars, pairVars, lookupVars, opVars >>

\* a handshake that keeps reading after the connected message, as long as
\* there is time
HsTest_ReadsOn ==
    /\ pc = "hs_test"
    /\ IF ~expired
       THEN /\ pc' = "hs_read"
            /\ UNCHANGED << connected, expired, outcome >>
       ELSE /\ IF ~Truthy(connected)
               THEN pc' = "failed" /\ outcome' = Raised("TimeoutError")
               ELSE pc' = "ready" /\ outcome' = Returned(JNull)
            /\ connected' = JBool(FALSE)
            /\ expired' = FALSE
    /\ UNCHANGED << proc, is_new_protocol, stdout, stdout_eof, stdin, byteorder, log,
                    consumed, call_start, call_emitted, prev_kind, calls, negotiations,
                    closes, answered, sent >>
    /\ UNCHANGED << buildVars, codecVars, pairVars, lookupVars, opVars >>

\* a handshake that kills the child when it gives up
HsTest_KillsOnTimeout ==
    /\ pc = "hs_test"
    /\ IF ~Truthy(connected) /\ ~expired
       THEN /\ pc' = "hs_read"
            /\ UNCHANGED << proc, connected, expired, outcome >>
       ELSE /\ IF ~Truthy(connected)
               THEN pc' = "failed" /\ outcome' = Raised("TimeoutError") /\ proc' = "killed"
               ELSE pc' = "ready" /\ outcome' = Returned(JNull) /\ proc' = proc
            /\ connected' = JBool(FALSE)
            /\ expired' = FALSE
    /\ UNCHANGED << is_new_protocol, stdout, stdout_eof, stdin, byteorder, log,
                    consumed, call_start, call_emitted, prev_kind, calls, negotiations,
                    closes, answered, sent >>
    /\ UNCHANGED << buildVars, codecVars, pairVars, lookupVars, opVars >>

\* _wait_for_daemon, line 155 and lines 161-162: the loop test and, when the
\* loop is left, the end of the handshake (its locals end with it)
HsTest ==
    /\ pc = "hs_test"
    /\ IF ~Truthy(connected) /\ ~expired
       THEN /\ pc' = "hs_read"
            /\ UNCHANGED << connected, expired, outcome >>
       ELSE /\ IF ~Truthy(connected)
               THEN pc' = "failed" /\ outcome' = Raised("TimeoutError")
               ELSE pc' = "ready" /\ outcome' = Returned(JNull)
            /\ connected' = JBool(FALSE)
            /\ expired' = FALSE
    /\ UNCHANGED << proc, is_new_protocol, stdout, stdout_eof, stdin, byteorder, log,
                    consumed, call_start, call_emitted, prev_kind, calls, negotiations,
                    closes, answered, sent >>
    /\ UNCHANGED << buildVars, codecVars, pairVars, lookupVars, opVars >>

\* _wait_for_daemon, lines 156-160: one message is read (the read blocks
\* until it is there), `connected` and is_new_protocol are taken from it;
\* the sleep of line 160 is time passing before the next loop test
HsRead ==
    /\ pc = "hs_read"
    /\ \E r \in {get_message(byteorder, stdout, stdout_eof)} :
           /\ r.kind # "blocked"
           /\ stdout' = r.rest
           /\ consumed' = IF r.kind = "exit" THEN consumed ELSE consumed + 1
           /\ IF r.kind = "message" /\ r.message.t = "obj"
              THEN /\ connected' = Get(r.message, K_connected)
                   /\ IF Truthy(Get(r.message, K_connected))
                      THEN /\ is_new_protocol' = NegotiatedProtocol(r.message)
                           /\ negotiations' = negotiations + 1
                      ELSE UNCHANGED << is_new_protocol, negotiations >>
                   /\ pc' = "hs_test"
                   /\ UNCHANGED << expired, outcome >>
              ELSE /\ pc' = "failed"
                   /\ outcome' = CASE r.kind = "message" -> Raised("AttributeError")
                                   [] r.kind = "exit" -> Raised("SystemExit")
                                   [] OTHER -> Raised(r.error)
                   /\ connected' = JBool(FALSE)
                   /\ expired' = FALSE
                   /\ UNCHANGED << is_new_protocol, negotiations >>
    /\ UNCHANGED << proc, stdout_eof, stdin, byteorder, log, call_start, call_emitted, prev_kind, calls,
                    closes, answered, sent >>
    /\ UNCHANGED << buildVars, codecVars, pairVars, lookupVars, opVars >>

\* the exceptions the session's operations raise that derive from Exception,
\* hence are caught by `except Exception`. SystemExit, which sys.exit raises
\* (native_messaging.py line 25), derives from BaseException only
ExceptionKinds == { "Exception", "TimeoutError", "AttributeError", "JSONDecodeError",
                    "UnicodeDecodeError", "BrokenPipeError" }

\* BaseApi._send_message, line 219: the flag given to encode_message is the
\* session's own field, not the attribute of the shared MESSAGE_API object
EncodingProtocol(own, shared) == own

T_Connect == <<"C", "o", "n", "n", "e", "c", "t">>
T_x == <<"x">>

\* the calls the callers of the model make: (method, params)
CallInputs == { <<T_XVPN \o T_Connect, JObj(<< <<K_id, JStr(T_x)>> >>)>>,
                <<T_Connect, JNull>> }

\* _call line 250 and _send_message line 219: the frame of the request built
\* from (method, params) under the session's protocol `own`, encoded with
\* the flag `flag`
RequestFrameDirect(order, own, flag, method, params) ==
    encode_message(order, _build_request(own, method, params), flag)

\* the same, with the frames of the callers' requests made once and looked
\* up after
RequestFrameMemo ==
    [k \in ByteOrders \X BOOLEAN \X BOOLEAN \X CallInputs |->
        RequestFrameDirect(k[1], k[2], k[3], k[4][1], k[4][2])]

RequestFrame(order, own, flag, method, params) ==
    LookupOr(RequestFrameMemo, <<order, own, flag, <<method, params>> >>,
             RequestFrameDirect(order, own, flag, method, params))

\* where a session stands between two operations
IdleAfter == IF closes = 0 THEN "ready" ELSE "closed"

\* a call that writes its request a second time before it waits
Call_Resends(method, params) ==
    /\ pc \in {"ready", "closed"}
    /\ calls < MaxCalls
    /\ IF proc = "dead"
       THEN /\ outcome' = Raised("BrokenPipeError")
            /\ UNCHANGED << pc, stdin, sent >>
       ELSE /\ stdin' = send_message(
                            send_message(stdin,
                                RequestFrame(byteorder, is_new_protocol, is_new_protocol,
                                             method, params)),
                            RequestFrame(byteorder, is_new_protocol, is_new_protocol,
                                         method, params))
            /\ sent' = Append(sent, <<method, params>>)
            /\ pc' = "get_response"
            /\ outcome' = Pending
    /\ call_start' = consumed
    /\ call_emitted' = Len(log)
    /\ prev_kind' = outcome.kind
    /\ calls' = calls + 1
    /\ UNCHANGED << proc, is_new_protocol, connected, expired, stdout, stdout_eof,
                    byteorder, log, consumed, negotiations, closes, answered >>
    /\ UNCHANGED << buildVars, codecVars, pairVars, lookupVars, opVars >>

\* BaseApi._call, lines 250-251, with _send_message: the request is built,
\* encoded and written; the wait for the response begins. No line tests
\* whether close() has run. Once the killed child has gone the flush of
\* send_message raises BrokenPipeError and nothing reaches the pipe
_call(method, params) ==
    /\ pc \in {"ready", "closed"}
    /\ calls < MaxCalls
    /\ IF proc = "dead"
       THEN /\ outcome' = Raised("BrokenPipeError")
            /\ UNCHANGED << pc, stdin, sent >>
       ELSE /\ stdin' = send_message(stdin,
                            RequestFrame(byteorder, is_new_protocol,
                                EncodingProtocol(is_new_protocol, MESSAGE_API.is_new_protocol),
                                method, params))
            /\ sent' = Append(sent, <<method, params>>)
            /\ pc' = "get_response"
            /\ outcome' = Pending
    /\ call_start' = consumed
    /\ call_emitted' = Len(log)
    /\ prev_kind' = outcome.kind
    /\ calls' = calls + 1
    /\ UNCHANGED << proc, is_new_protocol, connected, expired, stdout, stdout_eof,
                    byteorder, log, consumed, negotiations, closes, answered >>
    /\ UNCHANGED << buildVars, codecVars, pairVars, lookupVars >>

\* a call made by the caller directly
Call(method, params) == _call(method, params) /\ UNCHANGED opVars

\* a response loop that gives up when the pipe has nothing to read
GetResponse_GivesUp ==
    /\ pc = "get_response"
    /\ \E r \in {get_message(byteorder, stdout, stdout_eof)} :
           /\ stdout' = r.rest
           /\ consumed' = IF r.kind \in {"exit", "blocked"} THEN consumed ELSE consumed + 1
           /\ IF r.kind = "message" /\ r.message.t = "obj"
              THEN IF IsResponse(r.message)
                   THEN /\ outcome' = IF HasError(r.message)
                                      THEN DaemonException(r.message)
                                      ELSE Returned(r.message)
                        /\ pc' = IdleAfter
                        /\ answered' = answered + 1
                   ELSE UNCHANGED << pc, outcome, answered >>
              ELSE /\ pc' = IdleAfter
                   /\ outcome' = CASE r.kind = "message" -> Raised("AttributeError")
                                   [] r.kind = "exit" -> Raised("SystemExit")
                                   [] r.kind = "blocked" -> Raised("TimeoutError")
                                   [] OTHER -> Raised(r.error)
                   /\ UNCHANGED answered
    /\ UNCHANGED << proc, is_new_protocol, connected, expired, stdout_eof, stdin,
                    byteorder, log, call_start, call_emitted, prev_kind, calls, negotiations,
                    closes, sent >>
    /\ UNCHANGED << buildVars, codecVars, pairVars, lookupVars, opVars >>

\* BaseApi._get_response, lines 231-237: one turn of the loop
GetResponse ==
    /\ pc = "get_response"
    /\ \E r \in {get_message(byteorder, stdout, stdout_eof)} :
           /\ r.kind # "blocked"
           /\ stdout' = r.rest
           /\ consumed' = IF r.kind = "exit" THEN consumed ELSE consumed + 1
           /\ IF r.kind = "message" /\ r.message.t = "obj"
              THEN IF IsResponse(r.message)
                   THEN /\ outcome' = IF HasError(r.message)
                                      THEN DaemonException(r.message)
                                      ELSE Returned(r.message)
                        /\ pc' = IdleAfter
                        /\ answered' = answered + 1
                   ELSE UNCHANGED << pc, outcome, answered >>
              ELSE /\ pc' = IdleAfter
                   /\ outcome' = CASE r.kind = "message" -> Raised("AttributeError")
                                   [] r.kind = "exit" -> Raised("SystemExit")
                                   [] OTHER -> Raised(r.error)
                   /\ UNCHANGED answered
    /\ UNCHANGED << proc, is_new_protocol, connected, expired, stdout_eof, stdin,
                    byteorder, log, call_start, call_emitted, prev_kind, calls, negotiations,
                    closes, sent >>
    /\ UNCHANGED << buildVars, codecVars, pairVars, lookupVars, opVars >>

\* a close that also forgets the negotiated protocol
Close_ResetsProtocol ==
    /\ pc \in {"ready", "closed"}
    /\ closes < MaxCloses
    /\ proc' = IF proc = "running" THEN "killed" ELSE proc
    /\ pc' = "closed"
    /\ outcome' = Returned(JNull)
    /\ closes' = closes + 1
    /\ is_new_protocol' = FALSE
    /\ UNCHANGED << connected, expired, stdout, stdout_eof, stdin, byteorder, log,
                    consumed, call_start, call_emitted, prev_kind, calls, negotiations, answered, sent >>
    /\ UNCHANGED << buildVars, codecVars, pairVars, lookupVars, opVars >>

\* a close that first reads away what the daemon has written
Close_Drains ==
    /\ pc \in {"ready", "closed"}
    /\ closes < MaxCloses
    /\ proc' = IF proc = "running" THEN "killed" ELSE proc
    /\ pc' = "closed"
    /\ outcome' = Returned(JNull)
    /\ closes' = closes + 1
    /\ stdout' = <<>>
    /\ consumed' = Len(log)
    /\ UNCHANGED << is_new_protocol, connected, expired, stdout_eof, stdin, byteorder, log,
                    call_start, call_emitted, prev_kind, calls, negotiations, answered, sent >>
    /\ UNCHANGED << buildVars, codecVars, pairVars, lookupVars, opVars >>

\* BaseApi.close, lines 444-445: after the grace delay the child is sent
\* SIGKILL; nothing is read and no field of the session is assigned. On a
\* child that was already killed Popen.kill changes nothing
Close ==
    /\ pc \in {"ready", "closed"}
    /\ closes < MaxCloses
    /\ proc' = IF proc = "running" THEN "killed" ELSE proc
    /\ pc' = "closed"
    /\ outcome' = Returned(JNull)
    /\ closes' = closes + 1
    /\ UNCHANGED << is_new_protocol, connected, expired, stdout, stdout_eof, stdin, byteorder,
                    log, consumed, call_start, call_emitted, prev_kind, calls, negotiations, answered, sent >>
    /\ UNCHANGED << buildVars, codecVars, pairVars, lookupVars, opVars >>

\* the killed child is gone: the operating system closes its ends of the
\* pipes. When this happens relative to the client's next step is not fixed
ChildExit ==
    /\ proc = "killed"
    /\ proc' = "dead"
    /\ stdout_eof' = TRUE
    /\ UNCHANGED << pc, is_new_protocol, connected, expired, stdout, stdin, outcome,
                    byteorder, log, consumed, call_start, call_emitted, prev_kind, calls, negotiations,
                    closes, answered, sent >>
    /\ UNCHANGED << buildVars, codecVars, pairVars, lookupVars, opVars >>

\* values of the variables a specification does not use
IdleBuild == req_in = << <<>>, JNull >> /\ req_out = JNull
IdleCodec ==
    /\ codec_stage = "idle"
    /\ codec_in = JNull
    /\ codec_frame = [length |-> <<>>, content |-> <<>>]
    /\ codec_fd = <<>>
    /\ codec_out = [kind |-> "none", rest |-> <<>>]
IdleSession ==
    /\ pc = "unstarted"
    /\ proc = "none"
    /\ is_new_protocol = FALSE
    /\ connected = JBool(FALSE)
    /\ expired = FALSE
    /\ stdout = <<>>
    /\ stdout_eof = FALSE
    /\ stdin = <<>>
    /\ outcome = NoOutcome
    /\ log = <<>>
    /\ consumed = 0
    /\ call_start = 0
    /\ call_emitted = 0
    /\ prev_kind = "none"
    /\ calls = 0
    /\ negotiations = 0
    /\ closes = 0
    /\ answered = 0
    /\ sent = <<>>
    /\ op = NoOp
IdlePair ==
    /\ MESSAGE_API = [is_new_protocol |-> FALSE]
    /\ peers = <<>>
IdleLookup ==
    /\ _locations = JNull
    /\ lookup_name = <<>>
    /\ lookup_out = NoOutcome

\* ------------------------------------------------------------------------
\* Specification of a session and its daemon
\* ------------------------------------------------------------------------
Init ==
    /\ IdleSession
    /\ byteorder = "little"
    /\ IdleBuild
    /\ IdleCodec
    /\ IdlePair
    /\ IdleLookup

\* the caller of this specification makes its calls before it closes the
\* session, and closes it once
ReadyCall(method, params) == pc = "ready" /\ Call(method, params)
ReadyClose == pc = "ready" /\ Close

\* the daemon of this specification writes JSON texts
WellFormedOutputs == { i \in ProtocolOutputs : DaemonOutputs[i].json }

Next ==
    \/ Construct
    \/ HsTest
    \/ HsRead
    \/ Tick
    \/ \E in \in CallInputs : ReadyCall(in[1], in[2])
    \/ GetResponse
    \/ ReadyClose
    \/ \E i \in WellFormedOutputs : DaemonEmit(i)
    \/ DaemonClose
    \/ ChildExit

Spec == Init /\ [][Next]_vars

\* ------------------------------------------------------------------------
\* Specification of a session over its whole life: the caller may call and
\* close in any order, any number of times; the daemon answers, and may write
\* frames that do not decode
\* ------------------------------------------------------------------------
\* {"connected": true, "browser_helper_protocol": 2}, {"connected": true},
\* {"type": "result", "name": "r"}, {"type": "method", "name": "r", "error":
\* "bad"}, and the two frames that do not decode
LifecycleOutputs == {1, 2, 5, 6, 8, 9}

LifecycleNext ==
    \/ Construct
    \/ HsTest
    \/ HsRead
    \/ Tick
    \/ \E in \in CallInputs : Call(in[1], in[2])
    \/ GetResponse
    \/ Close
    \/ \E i \in LifecycleOutputs : DaemonEmit(i)
    \/ DaemonClose
    \/ ChildExit

LifecycleSpec == Init /\ [][LifecycleNext]_vars

\* ------------------------------------------------------------------------
\* Specification of _build_request: the arguments are drawn, the function is
\* applied on a session whose handshake has set is_new_protocol
\* ------------------------------------------------------------------------
\* the pieces method names are assembled from
NameParts == { T_XVPN, <<"X", "V", "P", "N">>, <<".">>, <<"X">>, T_Connect }

MethodNames ==
    UNION { {Flatten(parts) : parts \in [1..n -> NameParts]} : n \in 0..MaxParts }

\* params: omitted (None), empty, {"id": "x"}
ParamsInputs == { JNull, JObj(<<>>), JObj(<< <<K_id, JStr(T_x)>> >>) }

ReadySession ==
    /\ pc = "ready"
    /\ proc = "running"
    /\ is_new_protocol \in BOOLEAN
    /\ connected = JBool(FALSE)
    /\ expired = FALSE
    /\ stdout = <<>>
    /\ stdout_eof = FALSE
    /\ stdin = <<>>
    /\ outcome = Returned(JNull)
    /\ log = <<>>
    /\ consumed = 0
    /\ call_start = 0
    /\ call_emitted = 0
    /\ prev_kind = "none"
    /\ calls = 0
    /\ negotiations = 0
    /\ closes = 0
    /\ answered = 0
    /\ sent = <<>>
    /\ op = NoOp

BuildInit ==
    /\ ReadySession
    /\ byteorder = "little"
    /\ req_in \in MethodNames \X ParamsInputs
    /\ req_out = JNull
    /\ IdleCodec
    /\ IdlePair
    /\ IdleLookup

BuildRequest ==
    /\ req_out.t = "null"
    /\ req_out' = _build_request(is_new_protocol, req_in[1], req_in[2])
    /\ UNCHANGED << sessionVars, byteorder, req_in, codecVars, pairVars, lookupVars >>

BuildNext == BuildRequest

BuildSpec == BuildInit /\ [][BuildNext]_vars

\* ------------------------------------------------------------------------
\* Specification of the codec: a message is drawn, encoded, written to a
\* stream and read back from it
\* ------------------------------------------------------------------------
T_special == <<"X", "\"", "\\", EAcute>>
T_a == <<"a">>
K_odd == <<EAcute, "\"">>

CodecKeys == { K_method, K_params, K_id, K_odd }
CodecValues == { JNull, JInt(-1), JStr(T_special), JStr(T_XVPN \o T_Connect),
                 JObj(<< <<K_id, JStr(T_x)>> >>),
                 JList(<< JBool(TRUE), JInt(200), JStr(T_a) >>) }

\* the requests _build_request makes under the legacy protocol (four fields)
LegacyRequests == { _build_request(FALSE, in[1], in[2]) : in \in CallInputs }

\* the JSON objects of at most MaxMembers members over these keys and values,
\* and the legacy requests
CodecInputs ==
    UNION { { JObj(pairs) : pairs \in
                { ps \in [1..n -> CodecKeys \X CodecValues] :
                    \A i, j \in 1..n : i # j => ps[i][1] # ps[j][1] } }
            : n \in 0..MaxMembers }
    \cup LegacyRequests

CodecInit ==
    /\ ReadySession
    /\ byteorder \in ByteOrders
    /\ IdleBuild
    /\ IdlePair
    /\ IdleLookup
    /\ codec_stage = "input"
    /\ codec_in \in CodecInputs
    /\ codec_frame = [length |-> <<>>, content |-> <<>>]
    /\ codec_fd = <<>>
    /\ codec_out = [kind |-> "none", rest |-> <<>>]

\* encode_message(message_content, is_new_protocol)
CodecEncode ==
    /\ codec_stage = "input"
    /\ codec_frame' = encode_message(byteorder, codec_in, is_new_protocol)
    /\ codec_stage' = "encoded"
    /\ UNCHANGED << sessionVars, byteorder, buildVars, pairVars, lookupVars,
                    codec_in, codec_fd, codec_out >>

\* send_message(fd, encoded_message)
CodecSend ==
    /\ codec_stage = "encoded"
    /\ codec_fd' = send_message(codec_fd, codec_frame)
    /\ codec_stage' = "sent"
    /\ UNCHANGED << sessionVars, byteorder, buildVars, pairVars, lookupVars,
                    codec_in, codec_frame, codec_out >>

\* get_message(fd) on the stream that was written
CodecReceive ==
    /\ codec_stage = "sent"
    /\ codec_out' = get_message(byteorder, codec_fd, FALSE)
    /\ codec_stage' = "received"
    /\ UNCHANGED << sessionVars, byteorder, buildVars, pairVars, lookupVars,
                    codec_in, codec_frame, codec_fd >>

CodecNext == CodecEncode \/ CodecSend \/ CodecReceive

CodecSpec == CodecInit /\ [][CodecNext]_vars

\* ------------------------------------------------------------------------
\* Specification of the handshake alone, with the scheduling the code relies
\* on: the client thread runs whenever it can and time passes; the daemon is
\* under no obligation
\* ------------------------------------------------------------------------
HandshakeNext ==
    \/ Construct
    \/ HsTest
    \/ HsRead
    \/ Tick
    \/ \E i \in ProtocolOutputs : DaemonEmit(i)
    \/ DaemonClose

HandshakeSpec ==
    /\ Init
    /\ [][HandshakeNext]_vars
    /\ WF_vars(Construct)
    /\ WF_vars(HsTest)
    /\ WF_vars(HsRead)
    /\ WF_vars(Tick)

\* ------------------------------------------------------------------------
\* Specification of two sessions in one interpreter: two BaseApi objects,
\* each with its own child process, and the one NativeMessaging object that
\* the class attribute MESSAGE_API holds for both
\* ------------------------------------------------------------------------
Sessions == {1, 2}

\* the outputs a daemon greets its session with ({"connected": true} with
\* and without browser_helper_protocol), and the one it answers with
\* ({"type": "result", "name": "r"})
Greetings == {1, 2}
Answers == {5}

NoPeer == [pc |-> "unstarted", proc |-> "none", is_new_protocol |-> FALSE,
           stdin |-> <<>>, sent |-> <<>>, outcome |-> NoOutcome]

\* a handshake that also records the negotiated protocol in the codec object
\* (set_protocol_version)
CodecAfterHandshake_Recorded(api, negotiated) ==
    [api EXCEPT !.is_new_protocol = negotiated]

\* _wait_for_daemon, line 159: the negotiated protocol is assigned to the
\* session's own field; set_protocol_version is not called on MESSAGE_API
CodecAfterHandshake(api, negotiated) == api

\* BaseApi.__init__ of session s, its daemon greeting it with output i
PeerConstruct(s, i) ==
    /\ peers[s].pc = "unstarted"
    /\ peers' = [peers EXCEPT ![s] =
                    [@ EXCEPT !.pc = "ready",
                              !.proc = "running",
                              !.is_new_protocol = NegotiatedProtocol(DaemonOutputs[i].val),
                              !.outcome = Returned(JNull)]]
    /\ MESSAGE_API' = CodecAfterHandshake(MESSAGE_API,
                                          NegotiatedProtocol(DaemonOutputs[i].val))
    /\ UNCHANGED << sessionVars, byteorder, buildVars, codecVars, lookupVars >>

\* BaseApi._call on session s, its daemon answering with output i
PeerCall(s, method, params, i) ==
    /\ peers[s].pc = "ready"
    /\ Len(peers[s].sent) < MaxCalls
    /\ peers' = [peers EXCEPT ![s] =
                    [@ EXCEPT !.stdin = send_message(@,
                                  RequestFrame(byteorder, peers[s].is_new_protocol,
                                      EncodingProtocol(peers[s].is_new_protocol,
                                                       MESSAGE_API.is_new_protocol),
                                      method, params)),
                              !.sent = Append(@, <<method, params>>),
                              !.outcome = IF HasError(DaemonOutputs[i].val)
                                          THEN DaemonException(DaemonOutputs[i].val)
                                          ELSE Returned(DaemonOutputs[i].val)]]
    /\ UNCHANGED << MESSAGE_API, sessionVars, byteorder, buildVars, codecVars, lookupVars >>

\* BaseApi.close on session s
PeerClose(s) ==
    /\ peers[s].pc = "ready"
    /\ peers' = [peers EXCEPT ![s] =
                    [@ EXCEPT !.pc = "closed", !.proc = "killed",
                              !.outcome = Returned(JNull)]]
    /\ UNCHANGED << MESSAGE_API, sessionVars, byteorder, buildVars, codecVars, lookupVars >>

PairInit ==
    /\ IdleSession
    /\ byteorder = "little"
    /\ IdleBuild
    /\ IdleCodec
    /\ MESSAGE_API = [is_new_protocol |-> FALSE]
    /\ peers = [s \in Sessions |-> NoPeer]
    /\ IdleLookup

PairNext ==
    \/ \E s \in Sessions, i \in Greetings : PeerConstruct(s, i)
    \/ \E s \in Sessions, in \in CallInputs, i \in Answers :
           PeerCall(s, in[1], in[2], i)
    \/ \E s \in Sessions : PeerClose(s)

PairSpec == PairInit /\ [][PairNext]_vars

\* ------------------------------------------------------------------------
\* Specification of calls with the scheduling the code relies on: the client
\* thread runs whenever it can and time passes; the caller is free to make a
\* call or not, and the daemon is under no obligation
\* ------------------------------------------------------------------------
\* the connected message, a named event, a response
WaitOutputs == {1, 3, 5}

WaitNext ==
    \/ Construct
    \/ HsTest
    \/ HsRead
    \/ Tick
    \/ \E in \in CallInputs : ReadyCall(in[1], in[2])
    \/ GetResponse
    \/ \E i \in WaitOutputs : DaemonEmit(i)
    \/ DaemonClose

WaitSpec ==
    /\ Init
    /\ [][WaitNext]_vars
    /\ WF_vars(Construct)
    /\ WF_vars(HsTest)
    /\ WF_vars(HsRead)
    /\ WF_vars(Tick)
    /\ WF_vars(GetResponse)

\* ------------------------------------------------------------------------
\* Specification of the operations built on get_status: connect,
\* wait_for_connection, wait_for_disconnect
\* ------------------------------------------------------------------------
T_GetStatus == <<"G", "e", "t", "S", "t", "a", "t", "u", "s">>

\* is_connected, line 335, given the response of get_status:
\* bool(status.get("info", {}).get("connected")); a value of info that is
\* not a dict has no get
ConnectedIn(info) ==
    IF info.t # "obj" THEN Throws("AttributeError")
    ELSE Value(Truthy(Get(info, K_connected)))
is_connected(status) == ConnectedIn(GetOr(status, K_info, JObj(<<>>)))

\* connect, lines 435-437: the params of the Connect request
ConnectParams(connected_now, location_id) ==
    IF Truthy(location_id)
    THEN JObj(<< <<K_change_connected_location, JBool(connected_now)>>,
                 <<K_id, location_id>> >>)
    ELSE JObj(<< <<K_change_connected_location, JBool(connected_now)>> >>)

\* the arguments the caller gives: location ids and timeouts
T_loc == <<"7">>
LocationIds == { JNull, JStr(T_loc), JStr(<<>>), JInt(0) }
Timeouts == { 0, 30 }
Waits == { "wait_for_connection", "wait_for_disconnect" }

Started(name, stage, arg) ==
    [name |-> name, stage |-> stage, arg |-> arg, late |-> FALSE, polls |-> 0]
\* the operation has handed its outcome to the caller
Done == [op EXCEPT !.stage = "done"]
BetweenOps == pc = "ready" /\ op.stage \in {"none", "done"}

\* an operation ends without touching the session: the outcome of its last
\* exchange is what the caller gets
Propagate ==
    /\ op' = Done
    /\ UNCHANGED << pc, proc, is_new_protocol, connected, expired, stdout, stdout_eof,
                    stdin, outcome, byteorder, log, consumed, call_start, call_emitted,
                    prev_kind, calls, negotiations, closes, answered, sent >>
    /\ UNCHANGED << buildVars, codecVars, pairVars, lookupVars >>

\* an operation ends with an outcome of its own
Finish(result) ==
    /\ op' = Done
    /\ outcome' = result
    /\ UNCHANGED << pc, proc, is_new_protocol, connected, expired, stdout, stdout_eof,
                    stdin, byteorder, log, consumed, call_start, call_emitted,
                    prev_kind, calls, negotiations, closes, answered, sent >>
    /\ UNCHANGED << buildVars, codecVars, pairVars, lookupVars >>

\* connect(location_id), line 435: is_connected is evaluated first, which
\* writes the GetStatus request
ConnectBegin(location_id) ==
    /\ BetweenOps
    /\ _call(T_GetStatus, JNull)
    /\ op' = Started("connect", "status", location_id)

\* connect, lines 435-438, once get_status has ended: an exception leaves
\* connect; otherwise the params are built and the Connect request written
ConnectSend ==
    /\ op.name = "connect" /\ op.stage = "status"
    /\ pc = "ready"
    /\ IF outcome.kind # "return" THEN Propagate
       ELSE \E c \in {is_connected(outcome.val)} :
               IF c.kind # "value" THEN Finish(Raised(c.kind))
               ELSE /\ _call(T_Connect, ConnectParams(c.val, op.arg))
                    /\ op' = [op EXCEPT !.stage = "connect"]

\* connect, line 438: what _call gave is what connect gives
ConnectEnd ==
    /\ op.name = "connect" /\ op.stage = "connect"
    /\ pc = "ready"
    /\ Propagate

\* a connect that sends its request without asking for the status
ConnectBegin_NoStatus(location_id) ==
    /\ BetweenOps
    /\ _call(T_Connect, ConnectParams(FALSE, location_id))
    /\ op' = Started("connect", "connect", location_id)

\* wait_for_connection(timeout) and wait_for_disconnect(timeout), lines 370
\* and 387: start = time.time()
WaitBegin(name, timeout) ==
    /\ BetweenOps
    /\ op' = Started(name, "test", JInt(timeout))
    /\ UNCHANGED << pc, proc, is_new_protocol, connected, expired, stdout, stdout_eof,
                    stdin, outcome, byteorder, log, consumed, call_start, call_emitted,
                    prev_kind, calls, negotiations, closes, answered, sent >>
    /\ UNCHANGED << buildVars, codecVars, pairVars, lookupVars >>

\* time passes while the caller is in a wait: time.time() - start exceeds
\* the timeout. Two readings of the clock in a row may or may not differ,
\* so with timeout 0 this can be before the first test of the loop; with a
\* positive timeout it is not before the first poll has been started
OpTick ==
    /\ op.name \in Waits /\ op.stage \in {"test", "poll"}
    /\ ~op.late
    /\ op.arg.v = 0 \/ op.polls > 0
    /\ op' = [op EXCEPT !.late = TRUE]
    /\ UNCHANGED << pc, proc, is_new_protocol, connected, expired, stdout, stdout_eof,
                    stdin, outcome, byteorder, log, consumed, call_start, call_emitted,
                    prev_kind, calls, negotiations, closes, answered, sent >>
    /\ UNCHANGED << buildVars, codecVars, pairVars, lookupVars >>

\* lines 371 and 388: the loop test passes and is_connected writes the
\* GetStatus request
WaitPoll ==
    /\ op.name \in Waits /\ op.stage = "test"
    /\ pc = "ready"
    /\ ~op.late
    /\ _call(T_GetStatus, JNull)
    /\ op' = [op EXCEPT !.stage = "poll", !.polls = op.polls + 1]

\* lines 371 and 375, 388 and 392: the loop test fails, TimeoutError
WaitTimeout ==
    /\ op.name \in Waits /\ op.stage = "test"
    /\ pc = "ready"
    /\ op.late
    /\ Finish(Raised("TimeoutError"))

\* lines 372-374 and 389-391, once get_status has ended: return when the
\* status is the awaited one, sleep and test again otherwise
WaitPolled ==
    /\ op.name \in Waits /\ op.stage = "poll"
    /\ pc = "ready"
    /\ IF outcome.kind # "return" THEN Propagate
       ELSE \E c \in {is_connected(outcome.val)} :
               IF c.kind # "value" THEN Finish(Raised(c.kind))
               ELSE IF c.val = (op.name = "wait_for_connection")
               THEN Finish(Returned(JNull))
               ELSE /\ op' = [op EXCEPT !.stage = "test"]
                    /\ UNCHANGED << pc, proc, is_new_protocol, connected, expired,
                                    stdout, stdout_eof, stdin, outcome, byteorder, log,
                                    consumed, call_start, call_emitted, prev_kind, calls,
                                    negotiations, closes, answered, sent >>
                    /\ UNCHANGED << buildVars, codecVars, pairVars, lookupVars >>

\* the connected message, an error response, and the status reports
StatusOutputs == {1, 6, 10, 11, 12}

\* a caller that connects
ConnectNext ==
    \/ Construct
    \/ HsTest
    \/ HsRead
    \/ Tick
    \/ \E location_id \in LocationIds : ConnectBegin(location_id)
    \/ ConnectSend
    \/ ConnectEnd
    \/ GetResponse
    \/ \E i \in StatusOutputs : DaemonEmit(i)
    \/ DaemonClose

ConnectSpec == Init /\ [][ConnectNext]_vars

\* a caller that waits for the connection or for its end, with the
\* scheduling the code relies on: time passes, and the client thread, once
\* in an operation, runs whenever it can; the daemon is under no obligation
PollNext ==
    \/ Construct
    \/ HsTest
    \/ HsRead
    \/ Tick
    \/ \E name \in Waits, timeout \in Timeouts : WaitBegin(name, timeout)
    \/ OpTick
    \/ WaitPoll
    \/ WaitTimeout
    \/ WaitPolled
    \/ GetResponse
    \/ \E i \in StatusOutputs : DaemonEmit(i)
    \/ DaemonClose

PollSpec ==
    /\ Init
    /\ [][PollNext]_vars
    /\ WF_vars(Construct)
    /\ WF_vars(HsTest)
    /\ WF_vars(HsRead)
    /\ WF_vars(Tick)
    /\ WF_vars(GetResponse)
    /\ WF_vars(OpTick)
    /\ WF_vars(WaitTimeout)
    /\ WF_vars(WaitPolled)

\* ------------------------------------------------------------------------
\* Specification of the location lookup: the locations property fills
\* self._locations from the daemon's list, get_location_id searches it
\* ------------------------------------------------------------------------
T_Ab == <<"A", "b">>
T_ab == <<"a", "b">>
T_abc == <<"a", "b", "c">>
T_B == <<"B">>
T_b == <<"b">>
LocationNames == { T_Ab, T_ab, T_abc, T_B }
LookupNames == { T_ab, <<"A", "B">>, T_b, T_x, <<>> }

\* locs["locations"] of the daemon's GetLocations response: the k-th item
\* has id k (the other fields of an item play no part in the lookup)
LocationItem(k, name) == JObj(<< <<K_id, JInt(k)>>, <<K_name, JStr(name)>> >>)
DaemonLocations ==
    UNION { { [k \in 1..n |-> LocationItem(k, names[k])] : names \in [1..n -> LocationNames] }
            : n \in 0..MaxLocations }

\* windows_api.py lines 47-63: one Location object per item
LocationObjects(items) ==
    JList([k \in 1..Len(items) |->
               Location(Get(items[k], K_id), Get(items[k], K_name).v)])

\* the locations property of WindowsApi; lru_cache makes later reads of the
\* property return the first list without running the body again
LoadLocations(items) ==
    /\ _locations = JNull
    /\ _locations' = LocationObjects(items)
    /\ UNCHANGED << sessionVars, byteorder, buildVars, codecVars, pairVars,
                    lookup_name, lookup_out >>

GetLocationId(name) ==
    /\ lookup_out = NoOutcome
    /\ lookup_name' = name
    /\ lookup_out' = get_location_id(_locations, name)
    /\ UNCHANGED << sessionVars, byteorder, buildVars, codecVars, pairVars, _locations >>

LookupInit ==
    /\ ReadySession
    /\ byteorder = "little"
    /\ IdleBuild
    /\ IdleCodec
    /\ IdlePair
    /\ IdleLookup

LookupNext ==
    \/ \E items \in DaemonLocations : LoadLocations(items)
    \/ \E name \in LookupNames : GetLocationId(name)

LookupSpec == LookupInit /\ [][LookupNext]_vars

\* ------------------------------------------------------------------------
\* Properties
\* ------------------------------------------------------------------------
\* the j-th output of the daemon and, when it is JSON, its value
Out(j) == DaemonOutputs[log[j]]
Msg(j) == Out(j).val
IsObject(j) == Out(j).json /\ Msg(j).t = "obj"

TypeIsMethodOrResult(m) ==
    /\ Get(m, K_type).t = "str"
    /\ Get(m, K_type).v \in {T_method, T_result}

\* an event: a message with a name (not empty) whose type is neither "method"
\* nor "result"
NamedEvent(m) == Truthy(Get(m, K_name)) /\ ~TypeIsMethodOrResult(m)

\* the outputs after position s up to and including position k
EventsBetween(s, k) == \A j \in (s + 1)..(k - 1) : IsObject(j) /\ NamedEvent(Msg(j))

\* the call in progress or, when none is, the last one
InCall == calls > 0 /\ pc \in {"get_response", "ready"}
\* that call has ended by reading a frame
CallEndedByFrame ==
    /\ calls > 0 /\ pc = "ready"
    /\ consumed > call_start
    /\ outcome.kind # "SystemExit"

\* C1: when the outputs that follow a request are events and then a response
\* without error field, the call returns exactly that response: it is still
\* waiting while only events have been read, it ends on reading the response,
\* and it reads nothing after it.
C1_EventFiltering ==
    InCall =>
        \A k \in (call_start + 1)..Len(log) :
            ( /\ EventsBetween(call_start, k)
              /\ IsObject(k) /\ ~NamedEvent(Msg(k))
              /\ ~HasKey(Msg(k), K_error) )
            => /\ consumed <= k
               /\ consumed < k => pc = "get_response"
               /\ consumed = k => pc = "ready" /\ outcome = Returned(Msg(k))

\* a call has skipped an event and returned the response that followed it
C1_Witness ==
    /\ calls > 0 /\ pc = "ready"
    /\ consumed >= call_start + 2
    /\ EventsBetween(call_start, consumed)
    /\ outcome = Returned(Msg(consumed))

\* the frames the call has skipped: all it has read, but the one it ended on
SkippedByCall(j) ==
    /\ j > call_start /\ j <= consumed
    /\ ~(CallEndedByFrame /\ j = consumed)
\* the frame the call took for its response
TakenAsResponse(j) == CallEndedByFrame /\ j = consumed

\* C2 (as stated): a message is the response iff its type is "method" or
\* "result" or it has no name field at all; every message with a name field,
\* whatever its value, and another type is skipped.
C2_ClassificationAsStated ==
    InCall =>
        \A j \in (call_start + 1)..consumed :
            IsObject(j) =>
                /\ TakenAsResponse(j) =>
                        (TypeIsMethodOrResult(Msg(j)) \/ ~HasKey(Msg(j), K_name))
                /\ SkippedByCall(j) =>
                        ~(TypeIsMethodOrResult(Msg(j)) \/ ~HasKey(Msg(j), K_name))

\* C2 (amended): a message is the response iff its type is "method" or
\* "result" or its name is absent or falsy (null, false, 0, empty); every
\* other message is skipped.
C2_Classification ==
    InCall =>
        \A j \in (call_start + 1)..consumed :
            IsObject(j) =>
                /\ TakenAsResponse(j) =>
                        (TypeIsMethodOrResult(Msg(j)) \/ ~Truthy(Get(Msg(j), K_name)))
                /\ SkippedByCall(j) =>
                        ~(TypeIsMethodOrResult(Msg(j)) \/ ~Truthy(Get(Msg(j), K_name)))

\* a call has ended on a message whose name field is present and empty
C2_Witness ==
    /\ CallEndedByFrame
    /\ IsObject(consumed)
    /\ HasKey(Msg(consumed), K_name)
    /\ ~Truthy(Get(Msg(consumed), K_name))
    /\ ~TypeIsMethodOrResult(Msg(consumed))
    /\ outcome = Returned(Msg(consumed))

\* C3: when the frame a call ends on has an error field, the call raises the
\* exception whose text is "Error from daemon: " followed by the payload, and
\* returns nothing; when it has none, the call returns the message.
C3_ErrorSurfacing ==
    (CallEndedByFrame /\ IsObject(consumed)) =>
        IF HasKey(Msg(consumed), K_error)
        THEN /\ outcome.kind = "Exception"
             /\ outcome.text = T_ErrorFromDaemon \o PyStr(Get(Msg(consumed), K_error))
             /\ outcome.val = JNull
        ELSE outcome = Returned(Msg(consumed))

\* a call has ended on {"type": "method", "name": "r", "error": "bad"}
C3_Witness ==
    /\ CallEndedByFrame
    /\ IsObject(consumed)
    /\ PyEq(Get(Msg(consumed), K_error), JStr(T_bad))
    /\ outcome.kind = "Exception"
    /\ outcome.text = T_ErrorFromDaemon \o T_bad

\* the bytes the daemon has written and the client has not read
UnreadFrames ==
    Flatten([j \in 1..(Len(log) - consumed) |-> DaemonFrame(byteorder, Out(consumed + j))])

\* the value of browser_helper_protocol in m, 1 when m has none, is the
\* number 2
ProtocolFieldIsTwo(m) ==
    IF HasKey(m, K_browser_helper_protocol)
    THEN Get(m, K_browser_helper_protocol).t = "int" /\ Get(m, K_browser_helper_protocol).v = 2
    ELSE FALSE

\* the position of the first output that carries a truthy connected field
IsConnectedFrame(j) == IsObject(j) /\ Truthy(Get(Msg(j), K_connected))
HasConnectedFrame == \E j \in 1..Len(log) : IsConnectedFrame(j)
FirstConnectedFrame ==
    CHOOSE j \in 1..Len(log) :
        IsConnectedFrame(j) /\ \A i \in 1..(j - 1) : ~IsConnectedFrame(i)

HandshakeSucceeded == pc \in {"ready", "get_response", "closed"}

\* the rule of C1..C3, whatever came before the call: the frames the call
\* has skipped are named events, the frame it ended on is not, and the
\* outcome is that frame or the exception made of its error field
CallFollowsOutput ==
    /\ \A j \in (call_start + 1)..consumed :
          SkippedByCall(j) => IsObject(j) /\ NamedEvent(Msg(j))
    /\ (CallEndedByFrame /\ IsObject(consumed)) =>
          /\ ~NamedEvent(Msg(consumed))
          /\ IF HasKey(Msg(consumed), K_error)
             THEN outcome = DaemonException(Msg(consumed))
             ELSE outcome = Returned(Msg(consumed))
    /\ pc = "get_response" => outcome = Pending

\* the request the last call has written ends the bytes of stdin
LastRequestWritten ==
    \E in \in CallInputs :
        LET frame == send_message(<<>>,
                        encode_message(byteorder,
                            _build_request(is_new_protocol, in[1], in[2]), is_new_protocol))
        IN  /\ Len(stdin) >= Len(frame)
            /\ SubSeq(stdin, Len(stdin) - Len(frame) + 1, Len(stdin)) = frame

\* C4: when a call has raised the daemon's error (and close() has not been
\* called), the child is still running,
\* is_new_protocol is what the handshake negotiated, and the stream holds every
\* frame written after the one with the error; the call made next writes its
\* request, starts reading right after the frame with the error, and skips,
\* returns and raises by the same rule as any call.
C4_UsableAfterDaemonError ==
    /\ (pc = "ready" /\ outcome.kind = "Exception") =>
          /\ proc = "running"
          /\ HasConnectedFrame
          /\ is_new_protocol = ProtocolFieldIsTwo(Msg(FirstConnectedFrame))
          /\ IsObject(consumed) /\ HasKey(Msg(consumed), K_error)
          /\ stdout = UnreadFrames
    /\ (prev_kind = "Exception" /\ InCall /\ closes = 0) =>
          /\ proc = "running"
          /\ is_new_protocol = ProtocolFieldIsTwo(Msg(FirstConnectedFrame))
          /\ IsObject(call_start) /\ HasKey(Msg(call_start), K_error)
          /\ LastRequestWritten
          /\ stdout = UnreadFrames
          /\ CallFollowsOutput

\* the call made after one that raised the daemon's error has returned the
\* response that followed
C4_Witness ==
    /\ prev_kind = "Exception"
    /\ pc = "ready"
    /\ consumed = call_start + 1
    /\ outcome = Returned(Msg(consumed))

\* C5: when the handshake has succeeded, is_new_protocol is true iff the
\* first output with a truthy connected field has browser_helper_protocol
\* equal to 2 (1, hence false, when it has none); what earlier outputs carry
\* has no influence.
C5_Negotiation ==
    HandshakeSucceeded =>
        /\ HasConnectedFrame
        /\ is_new_protocol = ProtocolFieldIsTwo(Msg(FirstConnectedFrame))

\* an event with browser_helper_protocol 2, then {"connected": true}: the
\* legacy protocol is negotiated
C5_Witness ==
    /\ pc = "ready" /\ calls = 0
    /\ Len(log) >= 2
    /\ ~IsConnectedFrame(1) /\ ProtocolFieldIsTwo(Msg(1))
    /\ IsConnectedFrame(2) /\ ~HasKey(Msg(2), K_browser_helper_protocol)
    /\ ~is_new_protocol

\* all the daemon has written are messages (JSON objects) without a truthy
\* connected field, and its output is open
NoConnectedOutput ==
    /\ \A j \in 1..Len(log) : IsObject(j) /\ ~Truthy(Get(Msg(j), K_connected))
    /\ ~stdout_eof

\* C6: when the daemon never writes a message with a truthy connected field,
\* whether it writes other messages or nothing at all, the handshake
\* eventually fails with TimeoutError.
C6_HandshakeTimesOut ==
    ([]NoConnectedOutput) => <>(pc = "failed" /\ outcome.kind = "TimeoutError")

\* C7: once the handshake has completed, no step changes is_new_protocol and
\* none re-enters the handshake; is_new_protocol is negotiated at most once,
\* and exactly once in a session that is ready.
C7_SetOnce ==
    [][ /\ pc \in {"ready", "get_response", "closed", "failed"} =>
              /\ is_new_protocol' = is_new_protocol
              /\ pc' \notin {"unstarted", "hs_test", "hs_read"}
              /\ negotiations' = negotiations
        /\ negotiations' <= 1
        /\ pc' = "ready" => negotiations' = 1 ]_vars

\* a session that negotiated the new protocol, made a call and was closed
C7_Witness ==
    /\ pc = "closed"
    /\ calls >= 1
    /\ negotiations = 1
    /\ is_new_protocol

\* C8: under the new protocol the request has exactly the two fields method
\* and params; under the legacy one exactly the four fields jsonrpc = "2.0",
\* method (as given), params and id = 200; params that are absent are the
\* empty object in both.
C8_RequestShape ==
    req_out.t # "null" =>
        LET params == IF req_in[2].t = "null" THEN JObj(<<>>) ELSE req_in[2]
        IN  IF is_new_protocol
            THEN /\ Len(req_out.v) = 2
                 /\ Keys(req_out) = {K_method, K_params}
                 /\ Get(req_out, K_method).t = "str"
                 /\ Get(req_out, K_params) = params
            ELSE /\ Len(req_out.v) = 4
                 /\ Keys(req_out) = {K_jsonrpc, K_method, K_params, K_id}
                 /\ Get(req_out, K_jsonrpc) = JStr(T_2_0)
                 /\ Get(req_out, K_method) = JStr(req_in[1])
                 /\ Get(req_out, K_params) = params
                 /\ Get(req_out, K_id) = JInt(200)

\* build_request("XVPN.Connect", {"id": "x"}) under the new protocol
C8_Witness ==
    /\ is_new_protocol
    /\ req_in = <<T_XVPN \o T_Connect, JObj(<< <<K_id, JStr(T_x)>> >>)>>
    /\ req_out = JObj(<< <<K_method, JStr(T_Connect)>>,
                         <<K_params, JObj(<< <<K_id, JStr(T_x)>> >>)>> >>)

\* the name without its leading "XVPN.", when it has one
StripPrefix(method) ==
    IF Len(method) >= Len(T_XVPN) /\ SubSeq(method, 1, Len(T_XVPN)) = T_XVPN
    THEN SubSeq(method, Len(T_XVPN) + 1, Len(method))
    ELSE method

\* C9: under the new protocol the method sent is the name given without its
\* leading "XVPN."; a name without that prefix is sent as it is and an
\* "XVPN." that is not at the start stays.
C9_OnlyLeadingPrefixStripped ==
    (is_new_protocol /\ req_out.t # "null") =>
        Get(req_out, K_method) = JStr(StripPrefix(req_in[1]))

\* C10: under the legacy protocol, the object encoded, written to a stream
\* and read back from it by get_message is the object that was given, and
\* nothing is left in the stream.
C10_LegacyRoundTrip ==
    (codec_stage = "received" /\ ~is_new_protocol) =>
        /\ codec_out.kind = "message"
        /\ codec_out.message = codec_in
        /\ codec_out.rest = <<>>

\* an object with a non-ASCII key and a value with a quote and a backslash
\* has made the round trip
C10_Witness ==
    /\ codec_stage = "received" /\ ~is_new_protocol
    /\ codec_in.t = "obj"
    /\ HasKey(codec_in, K_odd)
    /\ Get(codec_in, K_odd) = JStr(T_special)
    /\ codec_out.kind = "message"
    /\ codec_out.message = codec_in

\* C11: under the new protocol, whatever object is given to encode_message,
\* the payload written decodes to an object with exactly the two keys method
\* and params; method is the given object's method (null when it has none),
\* params is its params, the empty object when it has no params; every
\* other field of the given object is dropped.
C11_NewProtocolEncoding ==
    (codec_stage = "received" /\ is_new_protocol) =>
        /\ codec_out.kind = "message"
        /\ codec_out.message.t = "obj"
        /\ Len(codec_out.message.v) = 2
        /\ Keys(codec_out.message) = {K_method, K_params}
        /\ Get(codec_out.message, K_method) =
               IF HasKey(codec_in, K_method) THEN Get(codec_in, K_method) ELSE JNull
        /\ Get(codec_out.message, K_params) =
               IF HasKey(codec_in, K_params) THEN Get(codec_in, K_params) ELSE JObj(<<>>)

\* a request in the four-field legacy shape has been encoded under the new
\* protocol and read back: jsonrpc and id are gone
C11_Witness ==
    /\ codec_stage = "received" /\ is_new_protocol
    /\ Keys(codec_in) = {K_jsonrpc, K_method, K_params, K_id}
    /\ codec_out.kind = "message"
    /\ Keys(codec_out.message) = {K_method, K_params}
    /\ Get(codec_out.message, K_method) = Get(codec_in, K_method)

\* the unsigned 32-bit integer that four bytes are in the host's byte order
NativeUInt32(raw) ==
    IF byteorder = "little"
    THEN raw[1] + 256 * (raw[2] + 256 * (raw[3] + 256 * raw[4]))
    ELSE raw[4] + 256 * (raw[3] + 256 * (raw[2] + 256 * raw[1]))

\* C12: under either protocol, the length field encode_message produces is
\* exactly four bytes, and read as an unsigned 32-bit integer in the host's
\* byte order it is the number of bytes of the payload.
C12_LengthPrefix ==
    codec_stage # "input" =>
        /\ Len(codec_frame.length) = 4
        /\ \A i \in 1..4 : codec_frame.length[i] \in 0..255
        /\ NativeUInt32(codec_frame.length) = Len(codec_frame.content)

\* a payload of some length has been encoded on a little-endian host
C12_Witness ==
    /\ codec_stage = "encoded"
    /\ byteorder = "little"
    /\ Len(codec_frame.content) >= 20
    /\ codec_frame.length = << Len(codec_frame.content), 0, 0, 0 >>

\* a read of the length prefix that yields zero bytes: the client is in a
\* read, nothing is buffered and the other end of the pipe is closed
ReadsClosedStream ==
    /\ pc \in {"hs_read", "get_response"}
    /\ stdout = <<>>
    /\ stdout_eof

\* C13: when the read of the length prefix yields zero bytes, the operation
\* ends without a decode error and without a message, no further read is
\* made by its loop, and what reaches the caller is a failure that can be
\* caught like the other errors of a session (an exception derived from
\* Exception).
C13_ClosedStreamIsCatchable ==
    [][ (ReadsClosedStream /\ pc' # pc) =>
            /\ pc' \notin {"hs_read", "hs_test", "get_response"}
            /\ consumed' = consumed
            /\ outcome'.kind \notin {"return", "JSONDecodeError", "UnicodeDecodeError"}
            /\ outcome'.kind \in ExceptionKinds ]_vars

\* C14: when the frame a read takes from the stream has a payload that is
\* not UTF-8 or not JSON, that read ends the handshake or the call it belongs
\* to with the decode error as what the caller gets: the frame is not
\* skipped as an event and not returned as a response.
C14_DecodeFailureSurfaced ==
    [][ (consumed' = consumed + 1 /\ ~DaemonOutputs[log[consumed + 1]].json) =>
            /\ outcome'.kind \in {"JSONDecodeError", "UnicodeDecodeError"}
            /\ pc = "hs_read" => pc' = "failed"
            /\ pc = "get_response" => pc' \in {"ready", "closed"} ]_vars

\* a call has ended on a frame that is not UTF-8, after a handshake and a
\* call that went well
C14_Witness ==
    /\ pc = "ready"
    /\ calls = 2
    /\ answered = 1
    /\ consumed = 3
    /\ ~Out(consumed).json
    /\ outcome.kind = "UnicodeDecodeError"

\* the handshake has read a message with a truthy connected field
HandshakeObservedConnected ==
    /\ negotiations >= 1
    /\ HasConnectedFrame
    /\ FirstConnectedFrame <= consumed

\* C15: a request frame is written only by a session whose handshake has
\* read a message with a truthy connected field; a session whose handshake
\* has failed stays failed and never writes a byte.
C15_CallsRequireReady ==
    [][ /\ stdin' # stdin => HandshakeObservedConnected
        /\ pc = "failed" => (pc' = "failed" /\ stdin = <<>> /\ stdin' = <<>>) ]_vars

\* a request has been written after a handshake that read a message without
\* connected and then one with it
C15_Witness ==
    /\ stdin # <<>>
    /\ calls = 1
    /\ HasConnectedFrame
    /\ FirstConnectedFrame = 2
    /\ call_start = 2

\* C16: once close() has run, no later call writes a request or returns a
\* response, the session is never again as it was when ready, and a further
\* close() changes nothing of the session or its child.
C16_ClosedIsTerminal ==
    [][ closes >= 1 =>
            /\ pc' # "ready"
            /\ stdin' = stdin
            /\ answered' = answered
            /\ closes' > closes =>
                   UNCHANGED << pc, proc, is_new_protocol, stdout, stdout_eof, stdin,
                                consumed, calls >> ]_vars

\* the payloads of the whole frames a byte stream begins with: four bytes of
\* length in the host's byte order, then that many bytes
RECURSIVE PayloadsOf(_)
PayloadsFrom(data, n) ==
    IF Len(data) < 4 + n THEN <<>>
    ELSE << SubSeq(data, 5, 4 + n) >> \o PayloadsOf(SubSeq(data, 5 + n, Len(data)))

PayloadsOf(data) ==
    IF Len(data) < 4 THEN <<>>
    ELSE PayloadsFrom(data, NativeUInt32(SubSeq(data, 1, 4)))

\* the number of request frames written to the child
FramesWritten == Len(PayloadsOf(stdin))

\* a call is under way: its request is written, its outcome is not there yet
InFlight == IF pc = "get_response" THEN 1 ELSE 0

\* the calls that have ended whatever their outcome, and those among all
\* calls that ended in their write, the child being gone
EndedCalls == calls - InFlight
FailedWrites == calls - Len(sent)

\* a call's write: one more frame, or none and the call has failed in it
WritesOneOrFails(before, after, kind) ==
    /\ after - before \in {0, 1}
    /\ after = before <=> kind = "BrokenPipeError"

\* C17 as stated: the number of request frames written minus the number of
\* calls that have returned a response or raised the daemon's error is 0 or 1.
C17_OutstandingAsStated ==
    FramesWritten - answered \in {0, 1}

\* C17: the number of request frames written minus the number of calls that
\* wrote one and have ended, by a response, by the daemon's error or by any
\* other exception, is 0 or 1, and it is 1 exactly while a call waits for
\* its response; a call writes one request frame, or none when the write
\* fails, and reads only after it has written.
C17_OneOutstanding ==
    /\ [](FramesWritten - (EndedCalls - FailedWrites) = InFlight)
    /\ [][ /\ (calls' = calls + 1) =>
                  /\ WritesOneOrFails(FramesWritten, FramesWritten', outcome'.kind)
                  /\ consumed' = consumed /\ stdout' = stdout
           /\ (calls' = calls) => (stdin' = stdin)
           /\ (consumed' # consumed /\ calls > 0) => InFlight = 1 ]_vars

\* a second call has written its request after the first ended with a
\* decode error: two frames written, two calls ended or under way
C17_Witness ==
    /\ calls = 2
    /\ FramesWritten = 2
    /\ answered = 0
    /\ prev_kind = "JSONDecodeError"
    /\ pc = "get_response"

\* the number of bytes of the frames that carry these payloads
RECURSIVE FramesLength(_)
FramesLength(payloads) ==
    IF payloads = <<>> THEN 0
    ELSE 4 + Len(Head(payloads)) + FramesLength(Tail(payloads))

\* get_message's decoding of the payloads of the requests the callers of the
\* model can make, decoded once and looked up after
RequestPayloadMemo ==
    [bytes \in { encode_message("little", _build_request(new, in[1], in[2]), new).content :
                    new \in BOOLEAN, in \in CallInputs } |->
        DecodePayloadDirect(bytes)]

DecodeRequest(bytes) == LookupOr(RequestPayloadMemo, bytes, DecodePayloadDirect(bytes))

\* C19: the bytes written to the child are whole frames and nothing else,
\* one per request written, each length field directly followed by its own
\* payload, and the k-th payload is the request of the k-th call that wrote.
C19_FrameWriteOrder ==
    /\ Len(PayloadsOf(stdin)) = Len(sent)
    /\ FramesLength(PayloadsOf(stdin)) = Len(stdin)
    /\ \A k \in 1..Len(sent) :
          /\ DecodeRequest(PayloadsOf(stdin)[k]).ok
          /\ DecodeRequest(PayloadsOf(stdin)[k]).val =
                 _build_request(is_new_protocol, sent[k][1], sent[k][2])

\* two calls with different arguments have been made and have ended
C19_Witness ==
    /\ Len(sent) = 2
    /\ sent[1] # sent[2]
    /\ pc = "ready"
    /\ answered = 2
    /\ Len(PayloadsOf(stdin)) = 2
    /\ PayloadsOf(stdin)[1] # PayloadsOf(stdin)[2]

\* C20: close() can be called whenever the session is between two
\* operations, whatever the stream holds; when it returns the child has been
\* sent the kill, and nothing was read from the daemon or written to it.
C20_CloseKillsChild ==
    [][ /\ (pc \in {"ready", "closed"} /\ closes < MaxCloses) => ENABLED Close
        /\ closes' = closes + 1 =>
               /\ proc' \in {"killed", "dead"}
               /\ UNCHANGED << stdout, stdout_eof, consumed, log, stdin >> ]_vars

\* close() has killed the child while frames the daemon wrote were unread
C20_Witness ==
    /\ closes = 1
    /\ proc = "killed"
    /\ consumed < Len(log)
    /\ stdout # <<>>

\* what a request is on the wire under a protocol: the two fields of the new
\* one, the four of the legacy one
WireShape(new) ==
    IF new THEN {K_method, K_params} ELSE {K_jsonrpc, K_method, K_params, K_id}

\* a decoded payload is the request built from the arguments `in` under the
\* protocol `new`, in the shape of that protocol
CarriesRequest(decoded, new, in) ==
    /\ decoded.ok
    /\ Keys(decoded.val) = WireShape(new)
    /\ decoded.val = _build_request(new, in[1], in[2])

\* the payloads are those of the requests built from `sent` under `new`
PayloadsCarry(payloads, new, sent_) ==
    /\ Len(payloads) = Len(sent_)
    /\ \A k \in 1..Len(sent_) : CarriesRequest(DecodeRequest(payloads[k]), new, sent_[k])

\* the requests session s has written are whole frames, each in the shape of
\* the protocol s negotiated and carrying the request built for s
OwnProtocolOnWire(s) ==
    PayloadsCarry(PayloadsOf(peers[s].stdin), peers[s].is_new_protocol, peers[s].sent)

\* C18: of two sessions in one interpreter, whatever the order of their
\* operations, each writes its requests in the shape of the protocol it
\* negotiated itself; an operation on one session changes no field of the
\* other, and none changes the codec object they share.
C18_SessionsIndependent ==
    /\ [](\A s \in Sessions : OwnProtocolOnWire(s))
    /\ [][ /\ \A s, t \in Sessions :
                  (s # t /\ peers'[s] # peers[s]) => peers'[t] = peers[t]
           /\ MESSAGE_API' = MESSAGE_API ]_vars

\* the two sessions have negotiated different protocols and each has
\* written requests, the legacy one after the new one started
C18_Witness ==
    /\ peers[1].is_new_protocol /\ ~peers[2].is_new_protocol
    /\ Len(peers[1].sent) = 2
    /\ Len(peers[2].sent) = 2
    /\ peers[1].pc = "ready" /\ peers[2].pc = "closed"
    /\ Keys(DecodeRequest(PayloadsOf(peers[1].stdin)[2]).val) = {K_method, K_params}
    /\ Keys(DecodeRequest(PayloadsOf(peers[2].stdin)[2]).val) =
           {K_jsonrpc, K_method, K_params, K_id}

\* ------------------------------------------------------------------------
\* Location lookup
\* ------------------------------------------------------------------------
\* the name and the id of a stored location, whichever way it is stored
NameOf(l) == IF l.t = "Location" THEN l.v.name ELSE Get(l, K_name).v
IdOf(l) == IF l.t = "Location" THEN l.v.id ELSE Get(l, K_id)
\* positions of the stored locations whose name equals / contains the
\* requested name, case-insensitively
EqualAt(locations, name) ==
    { i \in 1..Len(locations) : PyLower(NameOf(locations[i])) = PyLower(name) }
ContainsAt(locations, name) ==
    { i \in 1..Len(locations) : Contains(PyLower(NameOf(locations[i])), PyLower(name)) }
First(S) == CHOOSE i \in S : \A j \in S : i <= j
\* the error of a failed lookup: its text names the suggestion, if any
NotFoundWith(name, suggestions) ==
    Outcome("ValueError", JNull,
            T_Country \o name \o T_not_found
            \o (IF suggestions = <<>> THEN <<>>
                ELSE T_Did_you_mean \o suggestions[1] \o <<"?">>))
LookupAsStated(locations, name, eq, sub) ==
    IF eq # {} THEN Returned(IdOf(locations[First(eq)]))
    ELSE NotFoundWith(name, IF sub # {} THEN << NameOf(locations[First(sub)]) >> ELSE <<>>)

\* C21: once the location list is loaded, get_location_id(name) returns the
\* id of the first location whose name equals the requested name
\* case-insensitively; when there is none it fails with the not-found error,
\* which names the first location whose name contains the requested name
\* case-insensitively, or names no location when there is none.
C21_LocationLookup ==
    (lookup_out.kind # "none" /\ _locations.t = "list")
    => lookup_out = LookupAsStated(_locations.v, lookup_name,
                                   EqualAt(_locations.v, lookup_name),
                                   ContainsAt(_locations.v, lookup_name))

\* ------------------------------------------------------------------------
\* Requests and the frames that answer them
\* ------------------------------------------------------------------------
\* C22: the message a call returns is a frame the daemon wrote after the
\* call's request was written; a frame written before the request is never
\* returned as the response of that call.
C22_ResponseMatching ==
    (CallEndedByFrame /\ outcome.kind = "return") => consumed > call_emitted

\* ------------------------------------------------------------------------
\* What the handshake reads
\* ------------------------------------------------------------------------
\* C23: the handshake reads the daemon's messages up to the first one with a
\* truthy connected field and no further: as long as no call has been made
\* it has read nothing after that message; when it has succeeded it has read
\* every message before that one (they are dropped, the handshake returns
\* nothing) and that one, and every frame the daemon has written after it is
\* in the pipe, unread; the first call starts reading at the frame that
\* follows the connected message.
C23_HandshakeConsumption ==
    /\ (calls = 0 /\ HasConnectedFrame) => consumed <= FirstConnectedFrame
    /\ (calls = 0 /\ pc = "ready") =>
          /\ HasConnectedFrame
          /\ consumed = FirstConnectedFrame
          /\ stdout = UnreadFrames
          /\ outcome = Returned(JNull)
    /\ (calls = 1 /\ InCall) => call_start = FirstConnectedFrame

\* the handshake has dropped a message that preceded the connected message,
\* and the first call has returned the frame that followed it
C23_Witness ==
    /\ calls = 1 /\ pc = "ready"
    /\ HasConnectedFrame /\ FirstConnectedFrame >= 2
    /\ consumed = FirstConnectedFrame + 1
    /\ outcome = Returned(Msg(consumed))

\* ------------------------------------------------------------------------
\* Termination of a call
\* ------------------------------------------------------------------------
\* output j is not a named event: the response loop ends on reading it
EndsCall(j) == ~(IsObject(j) /\ NamedEvent(Msg(j)))
Waiting == pc = "get_response"
\* a frame that ends the call is in the pipe, or the pipe is closed
CanEnd == stdout_eof \/ \E j \in (consumed + 1)..Len(log) : EndsCall(j)
\* the same, counting only what the daemon wrote after the request
CanEndAfterRequest == stdout_eof \/ \E j \in (call_emitted + 1)..Len(log) : EndsCall(j)

LastSent == sent[Len(sent)]
\* the truthiness of info.connected in a status response
ReportsConnected(status) == Truthy(Get(GetOr(status, K_info, JObj(<<>>)), K_connected))
\* the Connect request was written after a GetStatus exchange that returned
\* the frame read last before it, and carries what that frame reports
ConnectFollowsStatus(request, status_request, status) ==
    /\ status_request = <<T_GetStatus, JNull>>
    /\ prev_kind = "return"
    /\ request[1] = T_Connect
    /\ Get(request[2], K_change_connected_location) = JBool(ReportsConnected(status))

\* C25: connect(location_id) first writes a GetStatus request and waits for
\* its response; the Connect request it then writes, one, follows a status
\* exchange that returned, has change_connected_location equal to the
\* truthiness of info.connected in that response, and has the parameter id,
\* equal to location_id, exactly when a location_id was given (is not None).
C25_ConnectExchanges ==
    /\ (op.name = "connect" /\ op.stage = "status") =>
          /\ sent # <<>> /\ LastSent = <<T_GetStatus, JNull>>
          /\ pc \in {"get_response", "ready"}
    /\ (op.name = "connect" /\ op.stage = "connect") =>
          /\ Len(sent) >= 2
          /\ IsObject(call_start)
          /\ ConnectFollowsStatus(LastSent, sent[Len(sent) - 1], Msg(call_start))
          /\ HasKey(LastSent[2], K_id) <=> (op.arg # JNull)
          /\ HasKey(LastSent[2], K_id) => Get(LastSent[2], K_id) = op.arg
          /\ Keys(LastSent[2]) \subseteq {K_change_connected_location, K_id}

\* ------------------------------------------------------------------------
\* wait_for_connection and wait_for_disconnect
\* ------------------------------------------------------------------------
InWait == op.name \in Waits /\ op.stage \in {"test", "poll"}
WaitEnded == op.name \in Waits /\ op.stage = "done"
\* the wait has returned only on a status report of the awaited kind: the
\* frame read last is a status response whose info.connected is truthy for
\* wait_for_connection, falsy for wait_for_disconnect
ReturnedOnAwaitedStatus ==
    (WaitEnded /\ outcome.kind = "return") =>
        /\ IsObject(consumed)
        /\ ReportsConnected(Msg(consumed)) = (op.name = "wait_for_connection")

\* C26: wait_for_connection returns normally only after a GetStatus response
\* reported info.connected truthy and wait_for_disconnect only after one
\* reported it falsy; each has polled at least once when it ends, even with
\* timeout 0; and a wait whose deadline has passed ends (with TimeoutError
\* unless the awaited status arrived).
C26_WaitsAsStated ==
    /\ [](ReturnedOnAwaitedStatus)
    /\ [](WaitEnded => op.polls >= 1)
    /\ (InWait /\ op.late) ~> WaitEnded

\* ------------------------------------------------------------------------
\* Who ends the child process
\* ------------------------------------------------------------------------
\* C27: only close() ends the child: as long as close() has not been called
\* the child spawned by the constructor is running, whatever the handshake
\* and the calls have come to (a handshake that failed, an error response,
\* a frame that does not decode); the only steps that change the child's
\* state are its spawning, close(), and the killed child going away.
C27_OnlyCloseKills ==
    /\ []((closes = 0 /\ pc # "unstarted") => proc = "running")
    /\ [][ (proc' # proc)
           => \/ pc = "unstarted" /\ proc' = "running"
              \/ closes' = closes + 1 /\ proc = "running" /\ proc' = "killed"
              \/ closes > 0 /\ proc = "killed" /\ proc' = "dead" ]_vars

\* a call has failed with the daemon's error, the next one on a frame that
\* is not JSON, close() has not been called, and the child is running
C27_Witness ==
    /\ calls = 2 /\ pc = "ready" /\ closes = 0
    /\ prev_kind = "Exception"
    /\ outcome.kind = "JSONDecodeError"
    /\ proc = "running"

====
